---- MODULE Spec2Model ----
(***************************************************************************)
(* Smart Notes backend (backend/app.py, class SmartNotesApp).              *)
(*                                                                         *)
(* Two pipelines are modelled, each under its own specification:           *)
(*   SpecTranslate  translate_content_with_retry: the ordered list of      *)
(*                  translation services, three attempts per service,      *)
(*                  validation of the result, the error log, the sleeps.   *)
(*   SpecSynth      generate_smart_notes: the word-count branches, the     *)
(*                  generation calls, the degradation ladder and the       *)
(*                  documents it returns.                                  *)
(* Functions are also called on their own:                                 *)
(*   SpecChunk      chunk_text on a text and a value of max_words.         *)
(*   SpecNormalize  preprocess_text on a text, then on its own result.     *)
(*   SpecFormat     format_notes_output on a generated text.               *)
(*   SpecFallback   create_fallback_notes on a text of up to 9 sentences.  *)
(*   SpecMindMap    add_mind_map on a text of headings and bullets.        *)
(*   SpecService    translate_with_gemini and translate_content, request   *)
(*                  by request (translate_chunk with its retry, the        *)
(*                  general model).                                        *)
(* And requests of both pipelines run interleaved on one instance:         *)
(*   SpecConcurrent                                                        *)
(*                                                                         *)
(* Strings handled character by character (the translated text, the        *)
(* content) are sequences of one-character strings.                        *)
(***************************************************************************)
EXTENDS Integers, Sequences, FiniteSets, TLC

VARIABLES
    \* ---- configuration, set once by __init__ ----
    GEMINI_API_KEY,        \* TRUE iff os.getenv('GEMINI_API_KEY') is set
    HF_TOKEN,              \* TRUE iff os.getenv('HUGGINGFACE_API_TOKEN') is set
    translation_services,  \* self.translation_services
    \* ---- one call of translate_content_with_retry ----
    t_pc,                  \* "idle" | "loop" | "returned" | "raised"
    content,               \* the text to translate
    service_idx,           \* position of the outer for loop (1-based)
    attempt,               \* the inner loop's variable, 0 .. max_retries - 1
    translated,            \* what the last service call returned
    last_errors,           \* the local list last_errors
    error_msg,             \* the message of the ValueError raised at the end
    calls,                 \* history: every service invocation and its outcome
    sleeps,                \* history: every time.sleep of the orchestrator
    \* ---- environment of generate_smart_notes ----
    nltk_ok,               \* TRUE iff NLTK's tokenizers work (punkt data is there)
    \* ---- one call of generate_smart_notes ----
    s_pc,                  \* "idle" | the generation call that is pending | "done" | "raised"
    sentences,             \* the text: its sentences, in order
    blank,                 \* TRUE iff the text is whitespace only
    title,                 \* the title argument
    chunks,                \* process_long_content: the list chunks
    chunk_i,               \* process_long_content: the loop's position (1-based)
    chunk_notes,           \* process_long_content: the list chunk_notes
    gen_calls,             \* history: every call of query_huggingface_model
    notes,                 \* the document generate_smart_notes returns
    \* ---- one call of chunk_text ----
    k_pc,                  \* "idle" | "called" | "returned" | "raised"
    k_text,                \* the argument text: its sentences and its characters
    k_max,                 \* the argument max_words
    k_chunks,              \* the list chunk_text returns
    \* ---- preprocess_text, called on a text and then on its own result ----
    n_pc,                  \* "idle" | "called" | "once" | "twice"
    n_text,                \* the argument text
    n_once,                \* preprocess_text(text)
    n_twice,               \* preprocess_text(preprocess_text(text))
    \* ---- one call of format_notes_output ----
    f_pc,                  \* "idle" | "called" | "returned"
    f_notes,               \* the argument notes_content
    f_title,               \* the argument title
    f_out,                 \* the document format_notes_output returns
    \* ---- requests served at the same time by one SmartNotesApp ----
    requests,              \* for every request in flight: its locals
    \* ---- one call of a translation service ----
    h_pc,                  \* "idle" | "called" | "specialized" | "retry" | "general" | "returned" | "raised"
    h_service,             \* 'gemini' (translate_with_gemini) or 'huggingface' (translate_content)
    h_text,                \* the argument content: its sentences and its characters
    h_lang,                \* the argument target_language
    h_pieces,              \* translate_content: the list chunks
    h_i,                   \* translate_content: the loop's position (1-based)
    h_translated,          \* translate_content: the list translated_chunks
    h_requests,            \* history: the requests.post calls made for the last piece, with their responses
    h_sleeps,              \* history: the time.sleep calls made for the last piece
    h_out,                 \* the text the service returns
    \* ---- one call of create_fallback_notes ----
    b_pc,                  \* "idle" | "called" | "returned"
    b_text,                \* the argument text: its sentences
    b_title,               \* the argument title
    b_out,                 \* the document create_fallback_notes returns
    \* ---- one call of add_mind_map ----
    m_pc,                  \* "idle" | "called" | "returned"
    m_text,                \* the argument text
    m_topics,              \* what extract_mind_map_topics returned
    m_out                  \* the document add_mind_map returns

tvars == <<t_pc, content, service_idx, attempt, translated, last_errors,
           error_msg, calls, sleeps>>
cvars == <<GEMINI_API_KEY, HF_TOKEN, translation_services>>
svars == <<nltk_ok, s_pc, sentences, blank, title, chunks, chunk_i, chunk_notes,
           gen_calls, notes>>
kvars == <<k_pc, k_text, k_max, k_chunks>>
\* The calls of single functions, each under a specification of its own.
nvars == <<n_pc, n_text, n_once, n_twice>>
fvars == <<f_pc, f_notes, f_title, f_out>>
rvars == <<requests>>
hvars == <<h_pc, h_service, h_text, h_lang, h_pieces, h_i, h_translated,
           h_requests, h_sleeps, h_out>>
bvars == <<b_pc, b_text, b_title, b_out>>
mvars == <<m_pc, m_text, m_topics, m_out>>
pvars == <<kvars, nvars, fvars, rvars, hvars, bvars, mvars>>
vars == <<cvars, tvars, svars, pvars>>

(***************************************************************************)
(* Bounds                                                                  *)
(***************************************************************************)
MaxStrLen == 2

(***************************************************************************)
(* Strings                                                                 *)
(***************************************************************************)
Whitespace == {" "}
Alphabet == {" ", "a"}

RECURSIVE StringsUpTo(_)
StringsUpTo(n) ==
    IF n = 0 THEN {<<>>}
    ELSE LET shorter == StringsUpTo(n - 1)
         IN  shorter \cup {Append(s, c) : s \in {x \in shorter : Len(x) = n - 1}, c \in Alphabet}

Strings == StringsUpTo(MaxStrLen)

\* str.lstrip()
RECURSIVE LStrip(_)
LStrip(s) ==
    IF s # <<>> /\ Head(s) \in Whitespace THEN LStrip(Tail(s)) ELSE s

\* str.rstrip()
RECURSIVE RStrip(_)
RStrip(s) ==
    IF s # <<>> /\ s[Len(s)] \in Whitespace
    THEN RStrip(SubSeq(s, 1, Len(s) - 1))
    ELSE s

\* str.strip()
Strip(s) == RStrip(LStrip(s))

\* Python's truth value of a string
Truthy(s) == s # <<>>

(***************************************************************************)
(* __init__: the list of translation services                              *)
(***************************************************************************)
BuildServicesReversed(gemini, hf) ==
    (IF hf THEN <<"huggingface">> ELSE <<>>) \o (IF gemini THEN <<"gemini">> ELSE <<>>)

BuildServices(gemini, hf) ==
    (IF gemini THEN <<"gemini">> ELSE <<>>) \o (IF hf THEN <<"huggingface">> ELSE <<>>)

(***************************************************************************)
(* translate_content_with_retry                                            *)
(***************************************************************************)
max_retries == 3

\* What the two service functions can raise: both wrap every failure in a
\* ValueError (translate_with_gemini's two except clauses, translate_content's
\* except clause).
ServiceRaises(service) ==
    IF service = "gemini"
    THEN {[class |-> "ValueError", text |-> "Gemini API network error"],
          [class |-> "ValueError", text |-> "Gemini translation failed"]}
    ELSE {[class |-> "ValueError", text |-> "Translation failed"]}

\* The validation of a service's result.
AcceptedIgnoringContent(result, text) ==
    Truthy(result) /\ Truthy(Strip(result))

Accepted(result, text) ==
    Truthy(result) /\ Truthy(Strip(result)) /\ result # text

\* The four except clauses, in order: the entry appended to last_errors.
ErrorEntry(service, exc) ==
    [service |-> service,
     kind |-> CASE exc.class = "Timeout" -> "request timeout"
                [] exc.class = "ConnectionError" -> "connection error"
                [] exc.class = "RequestException" -> "request failed"
                [] OTHER -> "translation error",
     text |-> exc.text]

\* The wait after an attempt that raised.
BackoffConstant(att) == 2

Backoff(att) == (att + 1) * 2

\* The wait after an attempt whose result was rejected.
RejectedWait == 1

\* The inner loop goes on to its next attempt, or the outer loop to the next
\* service.
NextPositionOneMore(idx, att) ==
    IF att < max_retries THEN <<idx, att + 1>> ELSE <<idx + 1, 0>>

NextPosition(idx, att) ==
    IF att < max_retries - 1 THEN <<idx, att + 1>> ELSE <<idx + 1, 0>>

FirstThree(errors) ==
    SubSeq(errors, 1, IF Len(errors) > 3 THEN 3 ELSE Len(errors))

\* last_errors[-3:]
LastThree(errors) ==
    SubSeq(errors, IF Len(errors) > 3 THEN Len(errors) - 2 ELSE 1, Len(errors))

CurrentService == translation_services[service_idx]

InLoop == t_pc = "loop" /\ service_idx <= Len(translation_services)

\* The call: content arrives, last_errors = [] and the loops start.
BeginTranslate(text) ==
    /\ t_pc = "idle"
    /\ t_pc' = "loop"
    /\ content' = text
    /\ service_idx' = 1
    /\ attempt' = 0
    /\ last_errors' = <<>>
    /\ UNCHANGED <<translated, error_msg, calls, sleeps, cvars, svars, pvars>>

ReturnOnAcceptKeepsLooping(result) ==
    /\ Accepted(result, content)
    /\ t_pc' = "loop"
    /\ calls' = Append(calls, [service |-> CurrentService, attempt |-> attempt,
                               outcome |-> "accepted"])
    /\ service_idx' = NextPosition(service_idx, attempt)[1]
    /\ attempt' = NextPosition(service_idx, attempt)[2]
    /\ UNCHANGED sleeps

\* One attempt whose service call returns a result that passes validation:
\* return translated.
ReturnOnAccept(result) ==
    /\ Accepted(result, content)
    /\ t_pc' = "returned"
    /\ calls' = Append(calls, [service |-> CurrentService, attempt |-> attempt,
                               outcome |-> "accepted"])
    /\ UNCHANGED <<service_idx, attempt, sleeps>>

\* The else branch: a warning is logged; sleep(1) and continue when attempts
\* remain, otherwise fall out of the try statement to the end of the loop
\* body, where attempt < max_retries - 1 is false.
ContinueOnReject(result) ==
    /\ ~Accepted(result, content)
    /\ t_pc' = "loop"
    /\ calls' = Append(calls, [service |-> CurrentService, attempt |-> attempt,
                               outcome |-> "rejected"])
    /\ sleeps' = IF attempt < max_retries - 1
                 THEN Append(sleeps, [service |-> CurrentService, attempt |-> attempt,
                                      secs |-> RejectedWait])
                 ELSE sleeps
    /\ service_idx' = NextPosition(service_idx, attempt)[1]
    /\ attempt' = NextPosition(service_idx, attempt)[2]

AttemptReturns(result) ==
    /\ InLoop
    /\ translated' = result
    /\ \/ ReturnOnAccept(result)
       \/ ContinueOnReject(result)
    /\ UNCHANGED <<content, last_errors, error_msg, cvars, svars, pvars>>

\* One attempt whose service call raises: the matching except clause records
\* the error, then the backoff sleep when attempts remain.
AttemptRaises(exc) ==
    /\ InLoop
    /\ exc \in ServiceRaises(CurrentService)
    /\ calls' = Append(calls, [service |-> CurrentService, attempt |-> attempt,
                               outcome |-> "raised"])
    /\ last_errors' = Append(last_errors, ErrorEntry(CurrentService, exc))
    /\ sleeps' = IF attempt < max_retries - 1
                 THEN Append(sleeps, [service |-> CurrentService, attempt |-> attempt,
                                      secs |-> Backoff(attempt)])
                 ELSE sleeps
    /\ service_idx' = NextPosition(service_idx, attempt)[1]
    /\ attempt' = NextPosition(service_idx, attempt)[2]
    /\ UNCHANGED <<t_pc, content, translated, error_msg, cvars, svars, pvars>>

\* After the outer loop: raise ValueError with the last three errors.
AllServicesFailed ==
    /\ t_pc = "loop"
    /\ service_idx > Len(translation_services)
    /\ t_pc' = "raised"
    /\ error_msg' = LastThree(last_errors)
    /\ UNCHANGED <<content, service_idx, attempt, translated, last_errors,
                   calls, sleeps, cvars, svars, pvars>>

ExcUniverse ==
    {[class |-> "ValueError", text |-> t] :
        t \in {"Gemini API network error", "Gemini translation failed", "Translation failed"}}

InitConfig ==
    /\ GEMINI_API_KEY \in BOOLEAN
    /\ HF_TOKEN \in BOOLEAN
    /\ translation_services = BuildServices(GEMINI_API_KEY, HF_TOKEN)

TranslateIdle ==
    /\ t_pc = "idle"
    /\ content = <<>>
    /\ service_idx = 1
    /\ attempt = 0
    /\ translated = <<>>
    /\ last_errors = <<>>
    /\ error_msg = <<>>
    /\ calls = <<>>
    /\ sleeps = <<>>

SynthIdle ==
    /\ s_pc = "idle"
    /\ sentences = <<>>
    /\ blank = FALSE
    /\ title = <<>>
    /\ chunks = <<>>
    /\ chunk_i = 1
    /\ chunk_notes = <<>>
    /\ gen_calls = <<>>
    /\ notes = <<>>

ChunkIdle ==
    /\ k_pc = "idle"
    /\ k_text = [ss |-> <<>>, doc |-> <<>>]
    /\ k_max = 0
    /\ k_chunks = <<>>

NormalizeIdle ==
    /\ n_pc = "idle"
    /\ n_text = <<>>
    /\ n_once = <<>>
    /\ n_twice = <<>>

FormatIdle ==
    /\ f_pc = "idle"
    /\ f_notes = <<>>
    /\ f_title = <<>>
    /\ f_out = <<>>

NoRequests ==
    requests = <<>>

ServiceIdle ==
    /\ h_pc = "idle"
    /\ h_service = "none"
    /\ h_text = [ss |-> <<>>, doc |-> <<>>]
    /\ h_lang = "none"
    /\ h_pieces = <<>>
    /\ h_i = 0
    /\ h_translated = <<>>
    /\ h_requests = <<>>
    /\ h_sleeps = <<>>
    /\ h_out = <<>>

FallbackIdle ==
    /\ b_pc = "idle"
    /\ b_text = <<>>
    /\ b_title = <<>>
    /\ b_out = <<>>

MindMapIdle ==
    /\ m_pc = "idle"
    /\ m_text = <<>>
    /\ m_topics = <<>>
    /\ m_out = <<>>

CallsIdle ==
    /\ ServiceIdle
    /\ FallbackIdle
    /\ MindMapIdle

PureIdle ==
    /\ ChunkIdle
    /\ NormalizeIdle
    /\ FormatIdle
    /\ NoRequests
    /\ CallsIdle

InitTranslate ==
    /\ InitConfig
    /\ nltk_ok = TRUE
    /\ TranslateIdle
    /\ SynthIdle
    /\ PureIdle

NextTranslate ==
    \/ \E text \in Strings : BeginTranslate(text)
    \/ \E result \in Strings : AttemptReturns(result)
    \/ \E exc \in ExcUniverse : AttemptRaises(exc)
    \/ AllServicesFailed

SpecTranslate == InitTranslate /\ [][NextTranslate]_vars

(***************************************************************************)
(* Documents                                                               *)
(*                                                                         *)
(* A document (generated text, notes) is a sequence of tokens.  A token is *)
(* a piece of text the code looks at as a unit: a heading marker, a bullet *)
(* marker, a line break, a phrase a regular expression matches, a run of   *)
(* ordinary words, or sentence n of the input text.                        *)
(***************************************************************************)
Tok(k) == [k |-> k, n |-> 0]

S(i) == [k |-> "sentence", n |-> i]

NL == Tok("\n")

SP == Tok(" ")

HeadingMarkers == {"#", "##", "###"}

\* str.startswith('#')
StartsWithHash(doc) == doc # <<>> /\ Head(doc).k \in HeadingMarkers

\* The kinds of sentences a text is drawn from: w words as text.split()
\* counts them, t tokens as word_tokenize counts them (the final full stop is
\* a token of its own), key: the sentence holds one of the indicator words of
\* create_fallback_notes.
SentenceKinds ==
    {[w |-> 25, t |-> 26, key |-> FALSE],
     [w |-> 25, t |-> 26, key |-> TRUE],
     [w |-> 600, t |-> 601, key |-> FALSE]}

\* Words of a token, as str.split() counts them.
TokWords(tok, ss) ==
    CASE tok.k = "sentence" -> ss[tok.n].w
      [] tok.k \in {"\n", " "} -> 0
      [] tok.k = "long passage" -> 20
      [] tok.k = "very long passage" -> 800
      [] OTHER -> 1

\* Characters of a token, as len() counts them.
TokChars(tok, ss) ==
    CASE tok.k = "sentence" -> 6 * ss[tok.n].w
      [] tok.k \in {"\n", " "} -> 1
      [] tok.k = "long passage" -> 120
      [] tok.k = "very long passage" -> 4800
      [] tok.k \in HeadingMarkers \cup {"-"} -> 2
      [] OTHER -> 8

RECURSIVE DocWords(_, _)
DocWords(doc, ss) ==
    IF doc = <<>> THEN 0 ELSE TokWords(Head(doc), ss) + DocWords(Tail(doc), ss)

RECURSIVE DocChars(_, _)
DocChars(doc, ss) ==
    IF doc = <<>> THEN 0 ELSE TokChars(Head(doc), ss) + DocChars(Tail(doc), ss)

\* sep.join(docs)
RECURSIVE Join(_, _)
Join(docs, sep) ==
    IF docs = <<>> THEN <<>>
    ELSE IF Len(docs) = 1 THEN docs[1]
    ELSE docs[1] \o sep \o Join(Tail(docs), sep)

\* The text as a document: its sentences separated by blanks, or one blank
\* when the text is whitespace only.
TextDoc(ss, isBlank) ==
    IF isBlank THEN <<SP>>
    ELSE Join([i \in 1..Len(ss) |-> <<S(i)>>], <<SP>>)

\* len(text.split())
RECURSIVE WordCount(_)
WordCount(ss) ==
    IF ss = <<>> THEN 0 ELSE Head(ss).w + WordCount(Tail(ss))

\* f"{title if title else 'Smart Notes'}"
TitleOrDefault(ttl) == IF Truthy(ttl) THEN ttl ELSE <<Tok("Smart Notes")>>

(***************************************************************************)
(* Configuration of the synthesis                                          *)
(***************************************************************************)
MAX_CHUNK_SIZE == 1000

MIN_WORDS == 50

MIN_STRUCTURED_LENGTH == 100

(***************************************************************************)
(* format_basic_notes                                                      *)
(***************************************************************************)
BriefNote == Tok("*Note: Content was too brief for advanced processing.*")

format_basic_notes_without_text(ss, isBlank, ttl) ==
    <<Tok("#")>> \o TitleOrDefault(ttl) \o <<NL, NL, Tok("##"), Tok("Content"), NL, NL>>
        \o <<NL, NL, BriefNote>>

format_basic_notes(ss, isBlank, ttl) ==
    <<Tok("#")>> \o TitleOrDefault(ttl) \o <<NL, NL, Tok("##"), Tok("Content"), NL, NL>>
        \o TextDoc(ss, isBlank) \o <<NL, NL, BriefNote>>

(***************************************************************************)
(* create_fallback_notes                                                   *)
(***************************************************************************)
\* The bullets "- sentence\n" of the sentences at the positions idx.
RECURSIVE Bullets(_)
Bullets(idx) ==
    IF idx = <<>> THEN <<>>
    ELSE <<Tok("-"), S(Head(idx)), NL>> \o Bullets(Tail(idx))

RECURSIVE SelectSeq2(_, _, _)
\* The positions lo..hi of ss whose sentence holds an indicator word.
SelectSeq2(ss, lo, hi) ==
    IF lo > hi THEN <<>>
    ELSE (IF ss[lo].key THEN <<lo>> ELSE <<>>) \o SelectSeq2(ss, lo + 1, hi)

Min(a, b) == IF a <= b THEN a ELSE b

\* Variant: the indicator words are looked for up to the end of the text.
ImportantSentencesToTheEnd(ss) ==
    [i \in 1..Min(3, Len(ss)) |-> i] \o SelectSeq2(ss, 4, Len(ss))

\* important_sentences: sentences[:3], then the sentences of sentences[3:8]
\* with an indicator word.
ImportantSentences(ss) ==
    [i \in 1..Min(3, Len(ss)) |-> i] \o SelectSeq2(ss, 4, Min(8, Len(ss)))

\* important_sentences[:5]
FirstFive(idx) == SubSeq(idx, 1, Min(5, Len(idx)))

SummaryLine(n) == [k |-> "This content covers n main points with key information extracted above.", n |-> n]

\* The except branch: title heading, text[:500] and "...".
TerminalFallback(ss, isBlank, ttl) ==
    <<Tok("#")>> \o TitleOrDefault(ttl) \o <<NL, NL, Tok("text[:500]"), Tok("...")>>

FallbackNotesWithoutSummary(ss, ttl) ==
    <<Tok("#")>> \o TitleOrDefault(ttl) \o <<NL, NL, Tok("##"), Tok("Key Information"), NL, NL>>
        \o Bullets(FirstFive(ImportantSentences(ss)))

FallbackNotes(ss, ttl) ==
    <<Tok("#")>> \o TitleOrDefault(ttl) \o <<NL, NL, Tok("##"), Tok("Key Information"), NL, NL>>
        \o Bullets(FirstFive(ImportantSentences(ss)))
        \o <<NL, Tok("##"), Tok("Summary"), NL, NL, SummaryLine(Len(ss))>>

create_fallback_notes(ss, isBlank, ttl, nltk) ==
    IF nltk THEN FallbackNotes(ss, ttl) ELSE TerminalFallback(ss, isBlank, ttl)

(***************************************************************************)
(* create_extractive_summary and format_basic_combination                  *)
(***************************************************************************)
create_extractive_summary_uncapped(chunk, nltk) ==
    IF nltk
    THEN Join([j \in 1..Len(chunk) |-> <<Tok("-"), S(chunk[j])>>], <<NL>>)
    ELSE <<Tok("chunk[:200]"), Tok("...")>>

\* chunk is the sequence of the positions of its sentences.
create_extractive_summary(chunk, nltk) ==
    IF nltk
    THEN Join([j \in 1..Min(3, Len(chunk)) |-> <<Tok("-"), S(chunk[j])>>], <<NL>>)
    ELSE <<Tok("chunk[:200]"), Tok("...")>>

RECURSIVE Sections(_, _)
Sections(cnotes, i) ==
    IF i > Len(cnotes) THEN <<>>
    ELSE <<Tok("##"), [k |-> "Section", n |-> i], NL, NL>> \o cnotes[i] \o <<NL, NL>>
             \o Sections(cnotes, i + 1)

format_basic_combination(cnotes, ttl) ==
    <<Tok("#")>> \o TitleOrDefault(ttl) \o <<NL, NL>> \o Sections(cnotes, 1)

(***************************************************************************)
(* chunk_text                                                              *)
(***************************************************************************)
\* Variants of the loop: one loses the sentence that does not fit, one tests
\* the budget before counting the sentence.
RECURSIVE ChunkLoopDropsOverflow(_, _, _, _, _, _)
ChunkLoopDropsOverflow(ss, max_words, i, current, count, done) ==
    IF i > Len(ss)
    THEN IF current # <<>> THEN Append(done, current) ELSE done
    ELSE IF count + ss[i].t <= max_words
         THEN ChunkLoopDropsOverflow(ss, max_words, i + 1, Append(current, i),
                                     count + ss[i].t, done)
         ELSE ChunkLoopDropsOverflow(ss, max_words, i + 1, <<>>, 0,
                                     IF current # <<>> THEN Append(done, current) ELSE done)

RECURSIVE ChunkLoopLateTest(_, _, _, _, _, _)
ChunkLoopLateTest(ss, max_words, i, current, count, done) ==
    IF i > Len(ss)
    THEN IF current # <<>> THEN Append(done, current) ELSE done
    ELSE IF count <= max_words
         THEN ChunkLoopLateTest(ss, max_words, i + 1, Append(current, i),
                                count + ss[i].t, done)
         ELSE ChunkLoopLateTest(ss, max_words, i + 1, <<i>>, ss[i].t,
                                IF current # <<>> THEN Append(done, current) ELSE done)

\* The for loop of chunk_text from sentence i on: current is current_chunk
\* (the positions of its sentences), count is current_word_count, done the
\* list chunks.
RECURSIVE ChunkLoop(_, _, _, _, _, _)
ChunkLoop(ss, max_words, i, current, count, done) ==
    IF i > Len(ss)
    THEN IF current # <<>> THEN Append(done, current) ELSE done
    ELSE IF count + ss[i].t <= max_words
         THEN ChunkLoop(ss, max_words, i + 1, Append(current, i), count + ss[i].t, done)
         ELSE ChunkLoop(ss, max_words, i + 1, <<i>>, ss[i].t,
                        IF current # <<>> THEN Append(done, current) ELSE done)

\* chunk_text: sent_tokenize has a fallback (text.split('. ')) but
\* word_tokenize has none, so without the tokenizers' data the call raises.
chunk_text(ss, max_words, nltk) ==
    IF nltk
    THEN [raised |-> FALSE, chunks |-> ChunkLoop(ss, max_words, 1, <<>>, 0, <<>>)]
    ELSE [raised |-> TRUE, chunks |-> <<>>]

\* sent_tokenize: the sentences of a text, in order, without the whitespace
\* between them.
sent_tokenize(doc) ==
    LET only == SelectSeq(doc, LAMBDA tok : tok.k = "sentence")
    IN  [j \in 1..Len(only) |-> only[j].n]

\* Variant: the chunk's first sentence only.
ChunkDocFirstSentence(chunk) == <<S(chunk[1])>>

\* The text of a chunk: its sentences, each followed by a blank, stripped.
ChunkDoc(chunk) == Join([j \in 1..Len(chunk) |-> <<S(chunk[j])>>], <<SP>>)

(***************************************************************************)
(* preprocess_text                                                         *)
(*                                                                         *)
(* The text is a sequence of pieces, each as long as the patterns need: a  *)
(* blank, a full stop, an at sign, a URL ("http://" and one more           *)
(* character), a letter, and the words of two of the navigation phrases    *)
(* (in any case: the patterns are applied with re.IGNORECASE).             *)
(***************************************************************************)
TextPieces == {" ", ".", "@", "url", "a", "read", "more", "subscribe"}

\* The pieces the character class of the URL pattern matches: letters,
\* digits and the range $-_ , which holds '.', '@', ':' and '/'.
UrlChars == {".", "@", "url", "a", "read", "more", "subscribe"}

\* re.sub(r'\s+', ' ', text)
RECURSIVE CollapseSpace(_)
CollapseSpace(s) ==
    IF s = <<>> THEN <<>>
    ELSE IF Head(s) \in Whitespace THEN <<" ">> \o CollapseSpace(LStrip(s))
    ELSE <<Head(s)>> \o CollapseSpace(Tail(s))

\* The longest prefix of s made of pieces of the set, removed.
RECURSIVE DropWhileIn(_, _)
DropWhileIn(s, set) ==
    IF s # <<>> /\ Head(s) \in set THEN DropWhileIn(Tail(s), set) ELSE s

\* re.sub(r'http[s]?://(?:...)+', '', text)
RECURSIVE RemoveUrls(_)
RemoveUrls(s) ==
    IF s = <<>> THEN <<>>
    ELSE IF Head(s) = "url" THEN RemoveUrls(DropWhileIn(Tail(s), UrlChars))
    ELSE <<Head(s)>> \o RemoveUrls(Tail(s))

\* re.sub(r'\S*@\S*\s?', '', text): a run of non-blank pieces with an at
\* sign goes, with one blank after it.
RECURSIVE RemoveEmails(_)
RemoveEmails(s) ==
    IF s = <<>> THEN <<>>
    ELSE IF Head(s) \in Whitespace THEN <<Head(s)>> \o RemoveEmails(Tail(s))
    ELSE LET rest == DropWhileIn(s, TextPieces \ Whitespace)
             run == SubSeq(s, 1, Len(s) - Len(rest))
         IN  IF \E i \in 1..Len(run) : run[i] = "@"
             THEN RemoveEmails(IF rest # <<>> THEN Tail(rest) ELSE rest)
             ELSE run \o RemoveEmails(rest)

\* re.sub(r'[c]{2,}', 'c', text)
RECURSIVE CollapseRepeats(_, _)
CollapseRepeats(s, c) ==
    IF s = <<>> THEN <<>>
    ELSE IF Head(s) = c /\ Len(s) >= 2 /\ s[2] = c
    THEN <<c>> \o CollapseRepeats(DropWhileIn(s, {c}), c)
    ELSE <<Head(s)>> \o CollapseRepeats(Tail(s), c)

\* navigation_patterns: 'read more' comes before 'subscribe' in the list.
navigation_patterns == << <<"read", " ", "more">>, <<"subscribe">> >>

IsPrefix(pat, s) == Len(pat) <= Len(s) /\ SubSeq(s, 1, Len(pat)) = pat

\* re.sub(pattern, '', text, flags=re.IGNORECASE)
RECURSIVE RemovePattern(_, _)
RemovePattern(s, pat) ==
    IF s = <<>> THEN <<>>
    ELSE IF IsPrefix(pat, s) THEN RemovePattern(SubSeq(s, Len(pat) + 1, Len(s)), pat)
    ELSE <<Head(s)>> \o RemovePattern(Tail(s), pat)

\* for pattern in navigation_patterns: text = re.sub(pattern, '', text, ...)
RECURSIVE RemoveNavigation(_, _)
RemoveNavigation(s, patterns) ==
    IF patterns = <<>> THEN s
    ELSE RemoveNavigation(RemovePattern(s, Head(patterns)), Tail(patterns))

preprocess_text(text) ==
    LET t1 == Strip(CollapseSpace(text))
        t2 == RemoveUrls(t1)
        t3 == RemoveEmails(t2)
        t4 == CollapseRepeats(CollapseRepeats(CollapseRepeats(t3, "."), "!"), "?")
        t5 == RemoveNavigation(t4, navigation_patterns)
    IN  Strip(t5)

(***************************************************************************)
(* format_notes_output                                                     *)
(***************************************************************************)
\* The position of the first token of doc, from i on, that is in kinds;
\* Len(doc) + 1 when there is none.
RECURSIVE FirstOf(_, _, _)
FirstOf(doc, kinds, i) ==
    IF i > Len(doc) THEN Len(doc) + 1
    ELSE IF doc[i].k \in kinds THEN i
    ELSE FirstOf(doc, kinds, i + 1)

From(doc, i) == SubSeq(doc, i, Len(doc))

\* Leading whitespace removed (the \s* of a pattern).
RECURSIVE SkipSpace(_)
SkipSpace(doc) ==
    IF doc # <<>> /\ Head(doc).k \in {" ", "\n"} THEN SkipSpace(Tail(doc)) ELSE doc

\* re.sub(r'^.*?Structured Notes:?\s*', '', notes, flags=re.IGNORECASE):
\* '.' does not match a line break, so the phrase must be on the first line.
StripStructuredNotesEcho(doc) ==
    LET j == FirstOf(doc, {"Structured Notes:"}, 1)
        eol == FirstOf(doc, {"\n"}, 1)
    IN  IF j <= Len(doc) /\ j < eol THEN SkipSpace(From(doc, j + 1)) ELSE doc

\* re.sub(r'^.*?Text:.*?\n', '', notes, flags=re.DOTALL | re.IGNORECASE):
\* with DOTALL the first 'Text:' may be on any line; everything up to the
\* first line break after it goes.
StripTextEcho(doc) ==
    LET j == FirstOf(doc, {"Text:"}, 1)
        m == FirstOf(doc, {"\n"}, j + 1)
    IN  IF j <= Len(doc) /\ m <= Len(doc) THEN From(doc, m + 1) ELSE doc

\* if not formatted_notes.startswith('#'): prepend "# {title or 'Smart Notes'}\n\n"
EnsureHeading(doc, ttl) ==
    IF StartsWithHash(doc) THEN doc
    ELSE <<Tok("#")>> \o TitleOrDefault(ttl) \o <<NL, NL>> \o doc

HasAny(doc, kinds) == \E i \in 1..Len(doc) : doc[i].k \in kinds

\* add_process_diagram, called when a process keyword is in the notes.
add_process_diagram(doc) ==
    IF HasAny(doc, {"1."})
    THEN doc \o <<NL, NL, Tok("###"), Tok("Process Flow"), NL, Tok("[process diagram block]"), NL, NL>>
    ELSE doc

\* add_relationship_diagram, called when a relationship keyword is in the notes.
add_relationship_diagram(doc) ==
    IF HasAny(doc, {"versus"})
    THEN doc \o <<NL, NL, Tok("###"), Tok("Relationship Map"), NL, Tok("[relationship diagram block]"), NL, NL>>
    ELSE doc

\* The lines of a document (split at the line breaks).
RECURSIVE Lines(_)
Lines(doc) ==
    LET eol == FirstOf(doc, {"\n"}, 1)
    IN  IF eol > Len(doc) THEN <<doc>>
        ELSE <<SubSeq(doc, 1, eol - 1)>> \o Lines(From(doc, eol + 1))

\* Tokens that start with a capital letter.
Capitalized == {"Key", "Action", "Note", "Benefit", "Problem", "Important"}

RECURSIVE Dedup(_, _)
\* list(dict.fromkeys(topics))
Dedup(topics, seen) ==
    IF topics = <<>> THEN <<>>
    ELSE IF Head(topics) \in seen THEN Dedup(Tail(topics), seen)
    ELSE <<Head(topics)>> \o Dedup(Tail(topics), seen \cup {Head(topics)})

\* extract_mind_map_topics: the headings (more than 3 characters), then the
\* bullet lines that start with a capital and have at most 4 words and more
\* than 5 characters; duplicates removed, the first 6 kept.
extract_mind_map_topics(doc, ss) ==
    LET ls == Lines(doc)
        IsHeading(l) == l # <<>> /\ Head(l).k \in HeadingMarkers
                          /\ DocChars(SkipSpace(Tail(l)), ss) > 3
        IsTopicBullet(l) == /\ Len(l) >= 2
                            /\ Head(l).k = "-"
                            /\ l[2].k \in Capitalized
                            /\ DocChars(Tail(l), ss) > 5
                            /\ DocWords(Tail(l), ss) <= 4
        PickLines(P(_)) == SelectSeq(ls, P)
        hs == [i \in 1..Len(PickLines(IsHeading)) |-> Tail(PickLines(IsHeading)[i])]
        bs == [i \in 1..Len(PickLines(IsTopicBullet)) |-> Tail(PickLines(IsTopicBullet)[i])]
        unique == Dedup(hs \o bs, {})
    IN  SubSeq(unique, 1, Min(6, Len(unique)))

\* Variant: the block is appended from two topics on.
AddMindMapFromTwoTopics(doc, ss) ==
    IF Len(extract_mind_map_topics(doc, ss)) >= 2
    THEN doc \o <<NL, NL, Tok("###"), Tok("Mind Map Overview"), NL, Tok("[mind map block]"), NL, NL>>
    ELSE doc

\* add_mind_map, called when a topic keyword is in the notes.
add_mind_map(doc, ss) ==
    IF Len(extract_mind_map_topics(doc, ss)) >= 3
    THEN doc \o <<NL, NL, Tok("###"), Tok("Mind Map Overview"), NL, Tok("[mind map block]"), NL, NL>>
    ELSE doc

\* The symbol that replaces "- " before a keyword at the start of a line.
BulletSymbol(k) ==
    CASE k \in {"Key", "Important"} -> "[key symbol]"
      [] k = "Action" -> "[check symbol]"
      [] k = "Note" -> "[warning symbol]"
      [] k = "Benefit" -> "[sparkle symbol]"
      [] k = "Problem" -> "[cross symbol]"
      [] OTHER -> "-"

\* enhance_bullet_points
enhance_bullet_points(doc) ==
    [i \in 1..Len(doc) |->
        IF /\ doc[i].k = "-"
           /\ (i = 1 \/ doc[i - 1].k = "\n")
           /\ i < Len(doc)
        THEN Tok(BulletSymbol(doc[i + 1].k))
        ELSE doc[i]]

\* Terms add_emphasis_formatting wraps in ** (case-insensitive).
Emphasized == {"important", "Important", "50%", "$100"}

RECURSIVE add_emphasis_formatting(_)
add_emphasis_formatting(doc) ==
    IF doc = <<>> THEN <<>>
    ELSE (IF Head(doc).k \in Emphasized
          THEN <<Tok("**"), Head(doc), Tok("**")>>
          ELSE <<Head(doc)>>) \o add_emphasis_formatting(Tail(doc))

\* add_visual_enhancements
add_visual_enhancements(doc, ss) ==
    LET d1 == IF HasAny(doc, {"process"})
              THEN add_process_diagram(doc) ELSE doc
        d2 == IF HasAny(doc, {"versus", "between"})
              THEN add_relationship_diagram(d1) ELSE d1
        d3 == IF HasAny(doc, {"overview"})
              THEN add_mind_map(d2, ss) ELSE d2
    IN  add_emphasis_formatting(enhance_bullet_points(d3))

Footer == <<NL, NL, Tok("---"), NL, Tok("*Generated on <timestamp> by Smart Notes AI*")>>

format_notes_output(doc, ttl, ss) ==
    add_visual_enhancements(EnsureHeading(StripTextEcho(StripStructuredNotesEcho(doc)), ttl), ss)
        \o Footer

(***************************************************************************)
(* query_huggingface_model                                                 *)
(***************************************************************************)
\* Texts the generation endpoint may return (after .strip()).
GenOutputs ==
    {<<>>,
     <<Tok("words")>>,
     <<Tok("##"), Tok("long passage"), NL, Tok("-"), Tok("Key"), Tok("words")>>,
     <<Tok("long passage"), NL, Tok("Text:"), Tok("words"), NL, Tok("-"), Tok("Important"), Tok("words")>>,
     <<Tok("##"), Tok("very long passage")>>}

\* What a call can do: return a text, or raise (no token configured, a
\* request error re-raised as ValueError, an unexpected response format).
GenOutcomes(token) ==
    {[raised |-> TRUE, text |-> <<>>]} \cup
    (IF token THEN {[raised |-> FALSE, text |-> g] : g \in GenOutputs} ELSE {})

GenUniverse == GenOutcomes(TRUE)

(***************************************************************************)
(* generate_smart_notes                                                    *)
(***************************************************************************)
MaxSentences == 3

RECURSIVE SeqsUpTo(_, _)
SeqsUpTo(set, n) ==
    IF n = 0 THEN {<<>>}
    ELSE LET shorter == SeqsUpTo(set, n - 1)
         IN  shorter \cup {Append(q, x) : q \in {y \in shorter : Len(y) = n - 1}, x \in set}

\* A text whose second chunk has more sentences than an extractive summary
\* keeps.
ManySentenceTexts ==
    LET short == [w |-> 25, t |-> 26, key |-> FALSE]
        long == [w |-> 600, t |-> 601, key |-> FALSE]
    IN  {<<long, long, short, short, short, short>>}

Texts == SeqsUpTo(SentenceKinds, MaxSentences) \cup ManySentenceTexts

Titles == {<<>>, <<Tok("title")>>}

\* The call returns doc.
Return(doc) ==
    /\ s_pc' = "done"
    /\ notes' = doc

\* One more call of query_huggingface_model: the prompt kind, the chunk it is
\* about (0: the whole text, Len(chunks) + 1: the combined notes), whether it
\* raised.
LogCall(kind, on, raised) ==
    gen_calls' = Append(gen_calls, [kind |-> kind, on |-> on, raised |-> raised])

\* The except clause of generate_smart_notes.
OnSynthesisErrorReraise(ss, isBlank, ttl) ==
    /\ s_pc' = "raised"
    /\ notes' = <<>>

OnSynthesisError(ss, isBlank, ttl) ==
    Return(create_fallback_notes(ss, isBlank, ttl, nltk_ok))

\* generate_smart_notes up to its first generation call: the word count picks
\* the branch; process_long_content starts with chunk_text.
BeginSynthesize(ss, isBlank, ttl) ==
    /\ s_pc = "idle"
    /\ isBlank => ss = <<>>
    /\ sentences' = ss
    /\ blank' = isBlank
    /\ title' = ttl
    /\ IF WordCount(ss) < MIN_WORDS
       THEN /\ Return(format_basic_notes(ss, isBlank, ttl))
            /\ UNCHANGED <<chunks, chunk_i>>
       ELSE IF WordCount(ss) <= MAX_CHUNK_SIZE
       THEN /\ s_pc' = "structured_notes"
            /\ UNCHANGED <<notes, chunks, chunk_i>>
       ELSE LET c == chunk_text(ss, MAX_CHUNK_SIZE, nltk_ok)
            IN  IF c.raised
                THEN /\ OnSynthesisError(ss, isBlank, ttl)
                     /\ UNCHANGED <<chunks, chunk_i>>
                ELSE /\ chunks' = c.chunks
                     /\ chunk_i' = 1
                     /\ IF c.chunks = <<>>
                        THEN Return(create_fallback_notes(ss, isBlank, ttl, nltk_ok))
                        ELSE s_pc' = "chunk" /\ UNCHANGED notes
    /\ UNCHANGED <<nltk_ok, chunk_notes, gen_calls, cvars, tvars, pvars>>

\* Variant of the first call: any text that is not empty is accepted.
StructuredNotesCallAnyLength(out) ==
    /\ s_pc = "structured_notes"
    /\ out \in GenOutcomes(HF_TOKEN)
    /\ LogCall("structured_notes", 0, out.raised)
    /\ IF out.raised
       THEN Return(create_fallback_notes(sentences, blank, title, nltk_ok))
       ELSE IF Truthy(out.text)
       THEN Return(format_notes_output(out.text, title, sentences))
       ELSE s_pc' = "key_insights" /\ UNCHANGED notes
    /\ UNCHANGED <<nltk_ok, sentences, blank, title, chunks, chunk_i, chunk_notes,
                   cvars, tvars, pvars>>

\* create_structured_notes, first call: structured_notes.
StructuredNotesCall(out) ==
    /\ s_pc = "structured_notes"
    /\ out \in GenOutcomes(HF_TOKEN)
    /\ LogCall("structured_notes", 0, out.raised)
    /\ IF out.raised
       THEN Return(create_fallback_notes(sentences, blank, title, nltk_ok))
       ELSE IF Truthy(out.text) /\ DocChars(out.text, sentences) > MIN_STRUCTURED_LENGTH
       THEN Return(format_notes_output(out.text, title, sentences))
       ELSE s_pc' = "key_insights" /\ UNCHANGED notes
    /\ UNCHANGED <<nltk_ok, sentences, blank, title, chunks, chunk_i, chunk_notes,
                   cvars, tvars, pvars>>

\* create_structured_notes, second call: key_insights.
KeyInsightsCall(out) ==
    /\ s_pc = "key_insights"
    /\ out \in GenOutcomes(HF_TOKEN)
    /\ LogCall("key_insights", 0, out.raised)
    /\ IF out.raised
       THEN Return(create_fallback_notes(sentences, blank, title, nltk_ok))
       ELSE IF Truthy(out.text)
       THEN Return(format_notes_output(out.text, title, sentences))
       ELSE s_pc' = "topic_breakdown" /\ UNCHANGED notes
    /\ UNCHANGED <<nltk_ok, sentences, blank, title, chunks, chunk_i, chunk_notes,
                   cvars, tvars, pvars>>

\* create_structured_notes, third call: topic_breakdown, or text[:500].
TopicBreakdownCall(out) ==
    /\ s_pc = "topic_breakdown"
    /\ out \in GenOutcomes(HF_TOKEN)
    /\ LogCall("topic_breakdown", 0, out.raised)
    /\ IF out.raised
       THEN Return(create_fallback_notes(sentences, blank, title, nltk_ok))
       ELSE Return(format_notes_output(
                IF Truthy(out.text) THEN out.text ELSE <<Tok("text[:500]")>>,
                title, sentences))
    /\ UNCHANGED <<nltk_ok, sentences, blank, title, chunks, chunk_i, chunk_notes,
                   cvars, tvars, pvars>>

\* "\n\n".join(chunk_notes)
Combined(cnotes) == Join(cnotes, <<NL, NL>>)

ManageableWhateverLength(cnotes, ss) == cnotes = cnotes

\* len(combined_content.split()) <= self.MAX_CHUNK_SIZE * 1.5
Manageable(cnotes, ss) == 2 * DocWords(Combined(cnotes), ss) <= 3 * MAX_CHUNK_SIZE

\* process_long_content, one turn of its loop: the key_insights call on
\* chunk chunk_i; a result is appended when it is not empty, the extractive
\* summary when the call raised.  After the last chunk: the fallback notes
\* when chunk_notes is empty, else combine_chunk_notes up to its call.
ChunkCall(out) ==
    /\ s_pc = "chunk"
    /\ out \in GenOutcomes(HF_TOKEN)
    /\ LogCall("key_insights", chunk_i, out.raised)
    /\ LET appended ==
               IF out.raised
               THEN Append(chunk_notes, create_extractive_summary(chunks[chunk_i], nltk_ok))
               ELSE IF Truthy(out.text) THEN Append(chunk_notes, out.text)
               ELSE chunk_notes
       IN  /\ chunk_notes' = appended
           /\ IF chunk_i < Len(chunks)
              THEN /\ chunk_i' = chunk_i + 1
                   /\ UNCHANGED <<s_pc, notes>>
              ELSE /\ UNCHANGED chunk_i
                   /\ IF appended = <<>>
                      THEN Return(create_fallback_notes(sentences, blank, title, nltk_ok))
                      ELSE IF Manageable(appended, sentences)
                      THEN s_pc' = "combine" /\ UNCHANGED notes
                      ELSE Return(format_notes_output(Combined(appended), title, sentences))
    /\ UNCHANGED <<nltk_ok, sentences, blank, title, chunks, cvars, tvars, pvars>>

\* combine_chunk_notes: the topic_breakdown call on the combined content; its
\* except clause returns format_basic_combination.
CombineCall(out) ==
    /\ s_pc = "combine"
    /\ out \in GenOutcomes(HF_TOKEN)
    /\ LogCall("topic_breakdown", Len(chunks) + 1, out.raised)
    /\ IF out.raised
       THEN Return(format_basic_combination(chunk_notes, title))
       ELSE Return(format_notes_output(
                IF Truthy(out.text) THEN out.text ELSE Combined(chunk_notes),
                title, sentences))
    /\ UNCHANGED <<nltk_ok, sentences, blank, title, chunks, chunk_i, chunk_notes,
                   cvars, tvars, pvars>>

InitSynth ==
    /\ GEMINI_API_KEY = FALSE
    /\ HF_TOKEN \in BOOLEAN
    /\ translation_services = BuildServices(GEMINI_API_KEY, HF_TOKEN)
    /\ nltk_ok \in BOOLEAN
    /\ TranslateIdle
    /\ SynthIdle
    /\ PureIdle

NextSynth ==
    \/ \E ss \in Texts, isBlank \in BOOLEAN, ttl \in Titles : BeginSynthesize(ss, isBlank, ttl)
    \/ \E out \in GenUniverse : StructuredNotesCall(out)
    \/ \E out \in GenUniverse : KeyInsightsCall(out)
    \/ \E out \in GenUniverse : TopicBreakdownCall(out)
    \/ \E out \in GenUniverse : ChunkCall(out)
    \/ \E out \in GenUniverse : CombineCall(out)

SpecSynth == InitSynth /\ [][NextSynth]_vars

(***************************************************************************)
(* chunk_text called on its own                                            *)
(***************************************************************************)
\* The whitespace between two sentences of a text, and around the text.
Separators == {<<SP>>, <<NL>>, <<SP, SP>>}

Margins == {<<>>, <<SP>>}

TextWith(ss, sep, margin) ==
    margin \o Join([i \in 1..Len(ss) |-> <<S(i)>>], sep) \o margin

ChunkTexts ==
    {[ss |-> ss, doc |-> TextWith(ss, sep, margin)] :
        ss \in Texts, sep \in Separators, margin \in Margins}

\* Values of max_words: none of the sentences fits, one short sentence, the
\* words of two short sentences but not their tokens, two short sentences,
\* the long sentence, the long and a short one, the default.
MaxWordsValues == {0, 26, 50, 52, 601, 627, 1000}

ChunkTextCall ==
    /\ k_pc = "called"
    /\ LET c == chunk_text(k_text.ss, k_max, nltk_ok)
       IN  IF c.raised
           THEN /\ k_pc' = "raised"
                /\ UNCHANGED k_chunks
           ELSE /\ k_pc' = "returned"
                /\ k_chunks' = [j \in 1..Len(c.chunks) |-> ChunkDoc(c.chunks[j])]
    /\ UNCHANGED <<k_text, k_max, cvars, tvars, svars, nvars, fvars, rvars,
                   hvars, bvars, mvars>>

InitChunk ==
    /\ GEMINI_API_KEY = FALSE
    /\ HF_TOKEN = FALSE
    /\ translation_services = BuildServices(GEMINI_API_KEY, HF_TOKEN)
    /\ nltk_ok \in BOOLEAN
    /\ TranslateIdle
    /\ SynthIdle
    /\ k_pc = "called"
    /\ k_text \in ChunkTexts
    /\ k_max \in MaxWordsValues
    /\ k_chunks = <<>>
    /\ NormalizeIdle
    /\ FormatIdle
    /\ NoRequests
    /\ CallsIdle

NextChunk == ChunkTextCall

SpecChunk == InitChunk /\ [][NextChunk]_vars

(***************************************************************************)
(* preprocess_text called on a text, then on its own result                *)
(***************************************************************************)
MaxTextLen == 5

RECURSIVE TextsUpTo(_)
TextsUpTo(n) ==
    IF n = 0 THEN {<<>>}
    ELSE LET shorter == TextsUpTo(n - 1)
         IN  shorter \cup {Append(x, c) : x \in {y \in shorter : Len(y) = n - 1},
                                          c \in TextPieces}

RawTexts == TextsUpTo(MaxTextLen)

PreprocessCall ==
    /\ n_pc = "called"
    /\ n_pc' = "once"
    /\ n_once' = preprocess_text(n_text)
    /\ UNCHANGED <<n_text, n_twice, cvars, tvars, svars, kvars, fvars, rvars,
                   hvars, bvars, mvars>>

PreprocessAgain ==
    /\ n_pc = "once"
    /\ n_pc' = "twice"
    /\ n_twice' = preprocess_text(n_once)
    /\ UNCHANGED <<n_text, n_once, cvars, tvars, svars, kvars, fvars, rvars,
                   hvars, bvars, mvars>>

InitNormalize ==
    /\ GEMINI_API_KEY = FALSE
    /\ HF_TOKEN = FALSE
    /\ translation_services = BuildServices(GEMINI_API_KEY, HF_TOKEN)
    /\ nltk_ok = TRUE
    /\ TranslateIdle
    /\ SynthIdle
    /\ ChunkIdle
    /\ n_pc = "called"
    /\ n_text \in RawTexts
    /\ n_once = <<>>
    /\ n_twice = <<>>
    /\ FormatIdle
    /\ NoRequests
    /\ CallsIdle

NextNormalize ==
    \/ PreprocessCall
    \/ PreprocessAgain

SpecNormalize == InitNormalize /\ [][NextNormalize]_vars

(***************************************************************************)
(* format_notes_output called on its own                                   *)
(***************************************************************************)
MaxLines == 3

\* The lines a generated text is made of: a section heading, a bullet with
\* a keyword, an echo of the prompt's "Text:" line, a line that mentions
\* "Structured Notes", a line of plain words.
LineKinds ==
    {<<Tok("##"), Tok("Topic")>>,
     <<Tok("-"), Tok("Key"), Tok("words")>>,
     <<Tok("Text:"), Tok("words")>>,
     <<Tok("words"), Tok("Structured Notes:"), Tok("more words")>>,
     <<Tok("words")>>}

GeneratedTexts ==
    {Join(ls, <<NL>>) : ls \in SeqsUpTo(LineKinds, MaxLines) \ {<<>>}}

FormatCall ==
    /\ f_pc = "called"
    /\ f_pc' = "returned"
    /\ f_out' = format_notes_output(f_notes, f_title, <<>>)
    /\ UNCHANGED <<f_notes, f_title, cvars, tvars, svars, kvars, nvars, rvars,
                   hvars, bvars, mvars>>

InitFormat ==
    /\ GEMINI_API_KEY = FALSE
    /\ HF_TOKEN = FALSE
    /\ translation_services = BuildServices(GEMINI_API_KEY, HF_TOKEN)
    /\ nltk_ok = TRUE
    /\ TranslateIdle
    /\ SynthIdle
    /\ ChunkIdle
    /\ NormalizeIdle
    /\ f_pc = "called"
    /\ f_notes \in GeneratedTexts
    /\ f_title \in Titles
    /\ f_out = <<>>
    /\ NoRequests
    /\ CallsIdle

NextFormat == FormatCall

SpecFormat == InitFormat /\ [][NextFormat]_vars

(***************************************************************************)
(* Requests served at the same time                                        *)
(*                                                                         *)
(* Flask serves every request on a thread of its own; all of them call the *)
(* methods of the one SmartNotesApp.  A request is a call of               *)
(* translate_content_with_retry or a call of generate_smart_notes on a     *)
(* text above MAX_CHUNK_SIZE words (process_long_content); its locals are  *)
(* a record, and a step of the model is a step of one request.             *)
(***************************************************************************)
NumRequests == 2

Requests == 1..NumRequests

RequestKinds == {"translate", "synthesize"}

\* The arguments of a request and its locals before its first statement.
NewRequest(kind) ==
    [kind |-> kind,
     pc |-> "new",
     content |-> <<"a">>,
     text |-> <<[w |-> 600, t |-> 601, key |-> FALSE], [w |-> 600, t |-> 601, key |-> FALSE]>>,
     service_idx |-> 1,
     attempt |-> 0,
     last_errors |-> <<>>,
     error_msg |-> <<>>,
     translated |-> <<>>,
     chunks |-> <<>>,
     chunk_i |-> 1,
     chunk_notes |-> <<>>,
     notes |-> <<>>,
     responses |-> <<>>]

NoException == [class |-> "", text |-> ""]

\* What the external calls of the requests answer.
RequestExceptions ==
    {[class |-> "ValueError", text |-> t] : t \in {"Gemini translation failed", "Translation failed"}}

RequestTranslations == {<<"a", "a">>}

RequestGenOutcomes ==
    {[raised |-> TRUE, text |-> <<>>], [raised |-> FALSE, text |-> <<Tok("words")>>]}

ErrorLogOfFirstRequest(reqs, r) == reqs[1].last_errors

\* last_errors is a local of translate_content_with_retry: the list a
\* request appends to is its own.
ErrorLog(reqs, r) == reqs[r].last_errors

Others == <<tvars, svars, kvars, nvars, fvars, hvars, bvars, mvars>>

\* The request starts: the loops of translate_content_with_retry, or
\* chunk_text and the loop of process_long_content.
RequestBegins(r) ==
    LET q == requests[r]
    IN  /\ q.pc = "new"
        /\ requests' =
              [requests EXCEPT ![r] =
                  IF q.kind = "translate"
                  THEN [q EXCEPT !.pc = "loop"]
                  ELSE [q EXCEPT !.pc = "chunk",
                                 !.chunks = chunk_text(q.text, MAX_CHUNK_SIZE, nltk_ok).chunks]]
        /\ UNCHANGED <<cvars, Others>>

\* One attempt of a translate request raises.
RequestAttemptRaises(r, exc) ==
    LET q == requests[r]
    IN  /\ q.kind = "translate"
        /\ q.pc = "loop"
        /\ q.service_idx <= Len(translation_services)
        /\ exc \in ServiceRaises(translation_services[q.service_idx])
        /\ requests' =
              [requests EXCEPT ![r] =
                  [q EXCEPT
                      !.last_errors = Append(ErrorLog(requests, r),
                                             ErrorEntry(translation_services[q.service_idx], exc)),
                      !.service_idx = NextPosition(q.service_idx, q.attempt)[1],
                      !.attempt = NextPosition(q.service_idx, q.attempt)[2],
                      !.responses = Append(@, [raised |-> TRUE, exc |-> exc, out |-> <<>>,
                                               service |-> translation_services[q.service_idx]])]]
        /\ UNCHANGED <<cvars, Others>>

\* One attempt of a translate request returns an accepted result.
RequestAttemptAccepted(r, result) ==
    LET q == requests[r]
    IN  /\ q.kind = "translate"
        /\ q.pc = "loop"
        /\ q.service_idx <= Len(translation_services)
        /\ Accepted(result, q.content)
        /\ requests' =
              [requests EXCEPT ![r] =
                  [q EXCEPT
                      !.pc = "returned",
                      !.translated = result,
                      !.responses = Append(@, [raised |-> FALSE, exc |-> NoException, out |-> result,
                                               service |-> translation_services[q.service_idx]])]]
        /\ UNCHANGED <<cvars, Others>>

\* A translate request has tried every service: it raises.
RequestAllServicesFailed(r) ==
    LET q == requests[r]
    IN  /\ q.kind = "translate"
        /\ q.pc = "loop"
        /\ q.service_idx > Len(translation_services)
        /\ requests' =
              [requests EXCEPT ![r] =
                  [q EXCEPT !.pc = "raised", !.error_msg = LastThree(q.last_errors)]]
        /\ UNCHANGED <<cvars, Others>>

\* One turn of the loop of process_long_content of a synthesize request.
RequestChunkCall(r, out) ==
    LET q == requests[r]
        appended ==
            IF out.raised
            THEN Append(q.chunk_notes, create_extractive_summary(q.chunks[q.chunk_i], nltk_ok))
            ELSE IF Truthy(out.text) THEN Append(q.chunk_notes, out.text)
            ELSE q.chunk_notes
        logged == Append(q.responses, [raised |-> out.raised, exc |-> NoException,
                                       out |-> out.text, service |-> "generation"])
    IN  /\ q.kind = "synthesize"
        /\ q.pc = "chunk"
        /\ out \in GenOutcomes(HF_TOKEN)
        /\ requests' =
              [requests EXCEPT ![r] =
                  IF q.chunk_i < Len(q.chunks)
                  THEN [q EXCEPT !.chunk_notes = appended, !.responses = logged,
                                 !.chunk_i = q.chunk_i + 1]
                  ELSE IF appended = <<>>
                  THEN [q EXCEPT !.chunk_notes = appended, !.responses = logged,
                                 !.pc = "returned",
                                 !.notes = create_fallback_notes(q.text, FALSE, <<>>, nltk_ok)]
                  ELSE IF Manageable(appended, q.text)
                  THEN [q EXCEPT !.chunk_notes = appended, !.responses = logged,
                                 !.pc = "combine"]
                  ELSE [q EXCEPT !.chunk_notes = appended, !.responses = logged,
                                 !.pc = "returned",
                                 !.notes = format_notes_output(Combined(appended), <<>>, q.text)]]
        /\ UNCHANGED <<cvars, Others>>

\* The call of combine_chunk_notes of a synthesize request.
RequestCombineCall(r, out) ==
    LET q == requests[r]
    IN  /\ q.kind = "synthesize"
        /\ q.pc = "combine"
        /\ out \in GenOutcomes(HF_TOKEN)
        /\ requests' =
              [requests EXCEPT ![r] =
                  [q EXCEPT
                      !.pc = "returned",
                      !.responses = Append(@, [raised |-> out.raised, exc |-> NoException,
                                               out |-> out.text, service |-> "generation"]),
                      !.notes = IF out.raised
                                THEN format_basic_combination(q.chunk_notes, <<>>)
                                ELSE format_notes_output(
                                         IF Truthy(out.text) THEN out.text
                                         ELSE Combined(q.chunk_notes),
                                         <<>>, q.text)]]
        /\ UNCHANGED <<cvars, Others>>

InitConcurrent ==
    /\ InitConfig
    /\ nltk_ok = TRUE
    /\ TranslateIdle
    /\ SynthIdle
    /\ ChunkIdle
    /\ NormalizeIdle
    /\ FormatIdle
    /\ requests \in [Requests -> {NewRequest(kind) : kind \in RequestKinds}]
    /\ CallsIdle

NextConcurrent ==
    \E r \in Requests :
        \/ RequestBegins(r)
        \/ \E exc \in RequestExceptions : RequestAttemptRaises(r, exc)
        \/ \E result \in RequestTranslations : RequestAttemptAccepted(r, result)
        \/ RequestAllServicesFailed(r)
        \/ \E out \in RequestGenOutcomes : RequestChunkCall(r, out)
        \/ \E out \in RequestGenOutcomes : RequestCombineCall(r, out)

SpecConcurrent == InitConcurrent /\ [][NextConcurrent]_vars

(***************************************************************************)
(* The translation services called on their own                            *)
(*                                                                         *)
(* translate_with_gemini and translate_content (with                       *)
(* chunk_text_for_translation, translate_chunk and                         *)
(* translate_with_general_model).  A step of the model is one              *)
(* requests.post with its response and everything the code does with it    *)
(* up to the next request.                                                 *)
(***************************************************************************)
max_chars == 1000

\* The sentences of the texts to translate: 420 and 1200 characters.
TranslationSentenceKinds ==
    {[w |-> 70, t |-> 71, key |-> FALSE],
     [w |-> 200, t |-> 201, key |-> FALSE]}

ServiceTexts ==
    {[ss |-> ss, doc |-> TextWith(ss, sep, <<>>)] :
        ss \in SeqsUpTo(TranslationSentenceKinds, MaxSentences) \ {<<>>},
        sep \in {<<SP>>, <<NL>>}}

\* Values of target_language: a key of language_models, a key written with
\* a capital, a language language_models has no entry for.
TargetLanguages == {"spanish", "French", "turkish"}

\* str.lower()
Lower(lang) ==
    CASE lang = "French" -> "french"
      [] lang = "Spanish" -> "spanish"
      [] OTHER -> lang

\* The dictionary language_models of translate_chunk.
language_models ==
    [l \in {"spanish", "french", "german", "italian", "portuguese", "dutch",
            "chinese", "japanese", "korean", "arabic", "russian", "hindi"} |->
        CASE l = "spanish" -> "Helsinki-NLP/opus-mt-en-es"
          [] l = "french" -> "Helsinki-NLP/opus-mt-en-fr"
          [] l = "german" -> "Helsinki-NLP/opus-mt-en-de"
          [] l = "italian" -> "Helsinki-NLP/opus-mt-en-it"
          [] l = "portuguese" -> "Helsinki-NLP/opus-mt-en-pt"
          [] l = "dutch" -> "Helsinki-NLP/opus-mt-en-nl"
          [] l = "chinese" -> "Helsinki-NLP/opus-mt-en-zh"
          [] l = "japanese" -> "Helsinki-NLP/opus-mt-en-jap"
          [] l = "korean" -> "Helsinki-NLP/opus-mt-en-ko"
          [] l = "arabic" -> "Helsinki-NLP/opus-mt-en-ar"
          [] l = "russian" -> "Helsinki-NLP/opus-mt-en-ru"
          [] l = "hindi" -> "Helsinki-NLP/opus-mt-en-hi"]

\* model_name = language_models.get(target_language.lower(), 'Helsinki-NLP/opus-mt-en-es')
model_name(lang) ==
    IF Lower(lang) \in DOMAIN language_models
    THEN language_models[Lower(lang)]
    ELSE "Helsinki-NLP/opus-mt-en-es"

\* The model behind self.HF_API_URL, the one translate_with_general_model asks.
GeneralModel == "HF_API_URL"

GeminiModel == "gemini-1.5-flash"

\* Variants of the loop of chunk_text_for_translation: one measures the
\* budget in sentences of any length, two to a piece.
RECURSIVE TranslationLoopTwoSentences(_, _, _, _, _, _)
TranslationLoopTwoSentences(ss, sents, i, current, count, done) ==
    IF i > Len(sents)
    THEN IF current # <<>> THEN Append(done, current) ELSE done
    ELSE IF Len(current) < 2
         THEN TranslationLoopTwoSentences(ss, sents, i + 1, Append(current, sents[i]),
                                          count, done)
         ELSE TranslationLoopTwoSentences(ss, sents, i + 1, <<sents[i]>>, count,
                                          Append(done, current))

\* The for loop of chunk_text_for_translation from sentence i on: current is
\* current_chunk (the positions of its sentences), count is
\* len(current_chunk) (every sentence is followed by a blank), done the list
\* chunks.
RECURSIVE TranslationLoop(_, _, _, _, _, _)
TranslationLoop(ss, sents, i, current, count, done) ==
    IF i > Len(sents)
    THEN IF current # <<>> THEN Append(done, current) ELSE done
    ELSE LET n == TokChars(S(sents[i]), ss)
         IN  IF count + n <= max_chars
             THEN TranslationLoop(ss, sents, i + 1, Append(current, sents[i]),
                                  count + n + 1, done)
             ELSE TranslationLoop(ss, sents, i + 1, <<sents[i]>>, n + 1,
                                  IF current # <<>> THEN Append(done, current) ELSE done)

\* chunk_text_for_translation: a text of at most max_chars characters is
\* returned as it is; sent_tokenize has no fallback here.
chunk_text_for_translation(text, nltk) ==
    IF DocChars(text.doc, text.ss) <= max_chars
    THEN [raised |-> FALSE, chunks |-> <<text.doc>>]
    ELSE IF nltk
    THEN LET c == TranslationLoop(text.ss, sent_tokenize(text.doc), 1, <<>>, 0, <<>>)
         IN  [raised |-> FALSE, chunks |-> [j \in 1..Len(c) |-> ChunkDoc(c[j])]]
    ELSE [raised |-> TRUE, chunks |-> <<>>]

\* What a translation model makes of a text: every sentence translated, the
\* whitespace kept.
Tr(doc) ==
    [i \in 1..Len(doc) |->
        IF doc[i].k = "sentence" THEN [k |-> "translated sentence", n |-> doc[i].n]
        ELSE doc[i]]

WhitespaceTokens == {" ", "\n"}

RECURSIVE LStripDoc(_)
LStripDoc(doc) ==
    IF doc # <<>> /\ Head(doc).k \in WhitespaceTokens THEN LStripDoc(Tail(doc)) ELSE doc

RECURSIVE RStripDoc(_)
RStripDoc(doc) ==
    IF doc # <<>> /\ doc[Len(doc)].k \in WhitespaceTokens
    THEN RStripDoc(SubSeq(doc, 1, Len(doc) - 1))
    ELSE doc

\* str.strip()
StripDoc(doc) == RStripDoc(LStripDoc(doc))

\* text.split(marker)[-1]
RECURSIVE AfterLast(_, _)
AfterLast(doc, marker) ==
    LET j == FirstOf(doc, {marker}, 1)
    IN  IF j > Len(doc) THEN doc ELSE AfterLast(From(doc, j + 1), marker)

\* A response to a request: its kind and the text it carries.
Response(kind, text) == [kind |-> kind, text |-> text]

\* What the specialized model can answer to a piece: a list with
\* 'translation_text', a list with 'generated_text', a dictionary with
\* 'error', a body of another shape, status 503, another error status, no
\* answer in 30 seconds, a list whose first element is not a dictionary.
SpecializedResponses(piece) ==
    {Response("translation_text", Tr(piece)),
     Response("generated_text", Tr(piece)),
     Response("error", <<>>),
     Response("other shape", <<>>),
     Response("503", <<>>),
     Response("http error", <<>>),
     Response("timeout", <<>>),
     Response("malformed", <<>>)}

\* What the general model can answer to the prompt: a list whose
\* 'generated_text' repeats the prompt before the translation, one with the
\* translation only, a body that is not a list, an error status, no answer.
GeneralResponses(piece) ==
    {Response("generated_text",
              <<Tok("Translate the following text to"), NL, NL>> \o piece
                  \o <<NL, NL, Tok("Translation:"), SP>> \o Tr(piece) \o <<NL>>),
     Response("generated_text", <<SP>> \o Tr(piece)),
     Response("other shape", <<>>),
     Response("http error", <<>>),
     Response("timeout", <<>>)}

\* What Gemini can answer: a first candidate whose text is the translation,
\* alone, between whitespace, after 'Translation:' or after a line of
\* introduction; no candidate; a status other than 200; no answer.
GeminiResponses(text) ==
    {Response("candidates", Tr(text)),
     Response("candidates", <<SP>> \o Tr(text) \o <<NL>>),
     Response("candidates", <<Tok("Translation:"), SP>> \o Tr(text)),
     Response("candidates", <<Tok("Here is the translation"), NL>> \o Tr(text)),
     Response("no candidates", <<>>),
     Response("http error", <<>>),
     Response("timeout", <<>>)}

\* translate_with_gemini, from the candidate's text to the return: strip, a
\* leading 'Translation:' cut off, then the last line when there are
\* several.
CleanCandidate(text) ==
    LET stripped == StripDoc(text)
        cleaned == IF stripped # <<>> /\ Head(stripped).k = "Translation:"
                      THEN StripDoc(Tail(stripped))
                      ELSE stripped
        lines == Lines(cleaned)
    IN  IF Len(lines) > 1 THEN StripDoc(lines[Len(lines)]) ELSE StripDoc(lines[1])

\* translate_with_general_model, from the response to the return.
GeneralResult(piece, resp) ==
    IF resp.kind = "generated_text"
    THEN LET cleaned == StripDoc(resp.text)
         IN  IF HasAny(cleaned, {"Translation:"})
             THEN StripDoc(AfterLast(cleaned, "Translation:"))
             ELSE cleaned
    ELSE piece

\* A request as the history keeps it: the model asked, the text sent, the
\* response (its kind and its text), and the piece it was made for (the
\* position of the loop of translate_content; 0 in translate_with_gemini).
Request(model, inputs, resp, piece) ==
    [model |-> model, inputs |-> inputs, response |-> resp.kind, text |-> resp.text,
     piece |-> piece]

\* if translated and translated.strip() and translated != content
Validated(out, text) == out # <<>> /\ StripDoc(out) # <<>> /\ out # text

TranslateWithGemini ==
    /\ h_pc = "called"
    /\ h_service = "gemini"
    /\ \E resp \in GeminiResponses(h_text.doc) :
        /\ h_requests' = <<Request(GeminiModel, h_text.doc, resp, 0)>>
        /\ IF resp.kind = "candidates"
           THEN /\ h_pc' = "returned"
                /\ h_out' = CleanCandidate(resp.text)
           ELSE /\ h_pc' = "raised"
                /\ UNCHANGED h_out
    /\ UNCHANGED <<h_service, h_text, h_lang, h_pieces, h_i, h_translated, h_sleeps,
                   cvars, tvars, svars, kvars, nvars, fvars, rvars, bvars, mvars>>

\* translate_content up to the first request.
TranslateContentBegins ==
    /\ h_pc = "called"
    /\ h_service = "huggingface"
    /\ LET c == chunk_text_for_translation(h_text, nltk_ok)
       IN  IF ~HF_TOKEN \/ c.raised
           THEN /\ h_pc' = "raised"
                /\ UNCHANGED <<h_pieces, h_i>>
           ELSE /\ h_pc' = "specialized"
                /\ h_pieces' = c.chunks
                /\ h_i' = 1
    /\ UNCHANGED <<h_service, h_text, h_lang, h_translated, h_requests, h_sleeps, h_out,
                   cvars, tvars, svars, kvars, nvars, fvars, rvars, bvars, mvars>>

\* translated_chunks.append(translated_chunk), then the next piece or the
\* return of ' '.join(translated_chunks).
PieceDone(result) ==
    /\ h_translated' = Append(h_translated, result)
    /\ IF h_i = Len(h_pieces)
       THEN /\ h_pc' = "returned"
            /\ h_out' = Join(h_translated', <<SP>>)
            /\ UNCHANGED h_i
       ELSE /\ h_pc' = "specialized"
            /\ h_i' = h_i + 1
            /\ UNCHANGED h_out

\* translate_chunk after the response it goes on with (raise_for_status and
\* the shape of the body).
AfterResponse(resp) ==
    CASE resp.kind \in {"translation_text", "generated_text"} ->
            PieceDone(resp.text)
      [] resp.kind \in {"error", "other shape", "503", "http error", "timeout"} ->
            /\ h_pc' = "general"
            /\ UNCHANGED <<h_i, h_translated, h_out>>
      [] OTHER ->
            /\ h_pc' = "raised"
            /\ UNCHANGED <<h_i, h_translated, h_out>>

\* Variant of the request after status 503: a 503 is waited for again.
RetryRequestAgain ==
    /\ h_pc = "retry"
    /\ \E resp \in SpecializedResponses(h_pieces[h_i]) :
        /\ h_requests' = Append(h_requests, Request(model_name(h_lang), h_pieces[h_i], resp, h_i))
        /\ IF resp.kind = "503" /\ Len(h_requests) < 3
           THEN UNCHANGED <<h_pc, h_i, h_translated, h_out>>
           ELSE AfterResponse(resp)
    /\ UNCHANGED <<h_service, h_text, h_lang, h_pieces, h_sleeps,
                   cvars, tvars, svars, kvars, nvars, fvars, rvars, bvars, mvars>>

\* The first request of translate_chunk for piece h_i.
SpecializedRequest ==
    /\ h_pc = "specialized"
    /\ \E resp \in SpecializedResponses(h_pieces[h_i]) :
        /\ h_requests' = <<Request(model_name(h_lang), h_pieces[h_i], resp, h_i)>>
        /\ IF resp.kind = "503"
           THEN /\ h_pc' = "retry"
                /\ h_sleeps' = <<20>>
                /\ UNCHANGED <<h_i, h_translated, h_out>>
           ELSE /\ h_sleeps' = <<>>
                /\ AfterResponse(resp)
    /\ UNCHANGED <<h_service, h_text, h_lang, h_pieces,
                   cvars, tvars, svars, kvars, nvars, fvars, rvars, bvars, mvars>>

\* The second request, after the 20 seconds.
RetryRequest ==
    /\ h_pc = "retry"
    /\ \E resp \in SpecializedResponses(h_pieces[h_i]) :
        /\ h_requests' = Append(h_requests, Request(model_name(h_lang), h_pieces[h_i], resp, h_i))
        /\ AfterResponse(resp)
    /\ UNCHANGED <<h_service, h_text, h_lang, h_pieces, h_sleeps,
                   cvars, tvars, svars, kvars, nvars, fvars, rvars, bvars, mvars>>

\* translate_with_general_model.
GeneralRequest ==
    /\ h_pc = "general"
    /\ \E resp \in GeneralResponses(h_pieces[h_i]) :
        /\ h_requests' = Append(h_requests, Request(GeneralModel, h_pieces[h_i], resp, h_i))
        /\ PieceDone(GeneralResult(h_pieces[h_i], resp))
    /\ UNCHANGED <<h_service, h_text, h_lang, h_pieces, h_sleeps,
                   cvars, tvars, svars, kvars, nvars, fvars, rvars, bvars, mvars>>

InitService ==
    /\ GEMINI_API_KEY = TRUE
    /\ HF_TOKEN \in BOOLEAN
    /\ translation_services = BuildServices(GEMINI_API_KEY, HF_TOKEN)
    /\ nltk_ok \in BOOLEAN
    /\ TranslateIdle
    /\ SynthIdle
    /\ ChunkIdle
    /\ NormalizeIdle
    /\ FormatIdle
    /\ NoRequests
    /\ FallbackIdle
    /\ MindMapIdle
    /\ h_pc = "called"
    /\ h_service \in {"gemini", "huggingface"}
    /\ h_text \in ServiceTexts
    /\ h_lang \in TargetLanguages
    /\ h_pieces = <<>>
    /\ h_i = 0
    /\ h_translated = <<>>
    /\ h_requests = <<>>
    /\ h_sleeps = <<>>
    /\ h_out = <<>>

NextService ==
    \/ TranslateWithGemini
    \/ TranslateContentBegins
    \/ SpecializedRequest
    \/ RetryRequest
    \/ GeneralRequest

SpecService == InitService /\ [][NextService]_vars

(***************************************************************************)
(* create_fallback_notes called on its own                                 *)
(***************************************************************************)
MaxFallbackSentences == 9

\* Sentences with and without an indicator word.
FallbackSentenceKinds ==
    {[w |-> 25, t |-> 26, key |-> FALSE],
     [w |-> 25, t |-> 26, key |-> TRUE]}

FallbackTexts == SeqsUpTo(FallbackSentenceKinds, MaxFallbackSentences)

FallbackCall ==
    /\ b_pc = "called"
    /\ b_pc' = "returned"
    /\ b_out' = create_fallback_notes(b_text, FALSE, b_title, nltk_ok)
    /\ UNCHANGED <<b_text, b_title, cvars, tvars, svars, kvars, nvars, fvars, rvars,
                   hvars, mvars>>

InitFallback ==
    /\ GEMINI_API_KEY = FALSE
    /\ HF_TOKEN = FALSE
    /\ translation_services = BuildServices(GEMINI_API_KEY, HF_TOKEN)
    /\ nltk_ok \in BOOLEAN
    /\ TranslateIdle
    /\ SynthIdle
    /\ ChunkIdle
    /\ NormalizeIdle
    /\ FormatIdle
    /\ NoRequests
    /\ ServiceIdle
    /\ MindMapIdle
    /\ b_pc = "called"
    /\ b_text \in FallbackTexts
    /\ b_title \in Titles
    /\ b_out = <<>>

NextFallback == FallbackCall

SpecFallback == InitFallback /\ [][NextFallback]_vars

(***************************************************************************)
(* add_mind_map called on its own                                          *)
(***************************************************************************)
MaxMindMapLines == 4

\* The lines of the texts: a heading, a heading with the words of a bullet,
\* two short bullets that start with a capital, a bullet of too many words,
\* a line of plain words.
MindMapLineKinds ==
    {<<Tok("##"), Tok("Alpha")>>,
     <<Tok("#"), Tok("Key"), Tok("one")>>,
     <<Tok("-"), Tok("Key"), Tok("one")>>,
     <<Tok("-"), Tok("Note"), Tok("two")>>,
     <<Tok("-"), Tok("Key"), Tok("long passage")>>,
     <<Tok("words")>>}

\* Texts with more topics than a mind map keeps, bullets and headings in
\* turn.
ManyTopicTexts ==
    {<<<<Tok("-"), Tok("Key"), Tok("one")>>,
       <<Tok("##"), Tok("Alpha")>>,
       <<Tok("-"), Tok("Note"), Tok("two")>>,
       <<Tok("##"), Tok("Beta")>>,
       <<Tok("-"), Tok("Action"), Tok("three")>>,
       <<Tok("###"), Tok("Gamma")>>,
       <<Tok("-"), Tok("Benefit"), Tok("four")>>,
       <<Tok("##"), Tok("Alpha")>>>>,
     <<<<Tok("##"), Tok("Alpha")>>,
       <<Tok("##"), Tok("Beta")>>,
       <<Tok("###"), Tok("Gamma")>>,
       <<Tok("#"), Tok("Delta")>>,
       <<Tok("-"), Tok("Key"), Tok("one")>>,
       <<Tok("-"), Tok("Note"), Tok("two")>>,
       <<Tok("-"), Tok("Action"), Tok("three")>>>>}

MindMapTexts ==
    {Join(ls, <<NL>>) :
        ls \in (SeqsUpTo(MindMapLineKinds, MaxMindMapLines) \ {<<>>}) \cup ManyTopicTexts}

MindMapCall ==
    /\ m_pc = "called"
    /\ m_pc' = "returned"
    /\ m_topics' = extract_mind_map_topics(m_text, <<>>)
    /\ m_out' = add_mind_map(m_text, <<>>)
    /\ UNCHANGED <<m_text, cvars, tvars, svars, kvars, nvars, fvars, rvars, hvars, bvars>>

InitMindMap ==
    /\ GEMINI_API_KEY = FALSE
    /\ HF_TOKEN = FALSE
    /\ translation_services = BuildServices(GEMINI_API_KEY, HF_TOKEN)
    /\ nltk_ok = TRUE
    /\ TranslateIdle
    /\ SynthIdle
    /\ ChunkIdle
    /\ NormalizeIdle
    /\ FormatIdle
    /\ NoRequests
    /\ ServiceIdle
    /\ FallbackIdle
    /\ m_pc = "called"
    /\ m_text \in MindMapTexts
    /\ m_topics = <<>>
    /\ m_out = <<>>

NextMindMap == MindMapCall

SpecMindMap == InitMindMap /\ [][NextMindMap]_vars

(***************************************************************************)
(* Properties of translate_content_with_retry                              *)
(***************************************************************************)
NumServices == Len(translation_services)

CallsOf(service) == {i \in 1..Len(calls) : calls[i].service = service}

NotAcceptedCalls == {i \in 1..Len(calls) : calls[i].outcome # "accepted"}

\* C4: once an attempt yields an accepted result the call returns it: an
\* accepted attempt is the last service invocation of the call, so no further
\* attempt on that service and no later service follows it; when the first
\* service is accepted on its first attempt, the only invocation is that one.
C4_ShortCircuit ==
    /\ \A i \in 1..Len(calls) :
          calls[i].outcome = "accepted" => i = Len(calls) /\ t_pc = "returned"
    /\ t_pc = "returned" =>
          /\ Len(calls) >= 1
          /\ calls[Len(calls)].outcome = "accepted"
    /\ (Len(calls) >= 1 /\ calls[1].outcome = "accepted") =>
          /\ Len(calls) = 1
          /\ \A k \in 2..NumServices : CallsOf(translation_services[k]) = {}

C4_Witness ==
    /\ t_pc = "returned"
    /\ NumServices = 2
    /\ Len(calls) = 1
    /\ calls[1].service = translation_services[1]

\* C5: a call makes at most 3 x (number of services) service invocations,
\* every step of the loop is one more invocation, and the call fails only
\* after exactly 3 invocations of every configured service.
C5_BoundedAttempts ==
    /\ Len(calls) <= 3 * NumServices
    /\ \A k \in 1..NumServices : Cardinality(CallsOf(translation_services[k])) <= 3
    /\ t_pc = "loop" => Len(calls) = 3 * (service_idx - 1) + attempt
    /\ t_pc = "raised" =>
          /\ Len(calls) = 3 * NumServices
          /\ \A k \in 1..NumServices :
                Cardinality(CallsOf(translation_services[k])) = 3
          /\ NotAcceptedCalls = 1..Len(calls)

C5_Witness ==
    /\ t_pc = "raised"
    /\ NumServices = 2
    /\ Len(calls) = 6
    /\ \A i \in 1..Len(calls) : calls[i].outcome = "rejected" /\ translated = <<>>

\* C6 (as claimed): when the call fails, the raised message refers to every
\* configured service.
C6_MessageNamesEveryService ==
    t_pc = "raised" =>
        \A k \in 1..NumServices :
            \E j \in 1..Len(error_msg) : error_msg[j].service = translation_services[k]

\* A result is valid when it is non-empty, has a character that is not
\* whitespace, and differs from the input.
ValidTranslation(result, text) ==
    /\ Len(result) > 0
    /\ \E i \in 1..Len(result) : result[i] \notin Whitespace
    /\ result # text

\* C7: a returned result is accepted iff it is non-empty, not whitespace-only
\* and different from the input; so whatever the call returns has these three
\* properties.
C7_AcceptedIffValid ==
    /\ (Len(calls) >= 1 /\ calls[Len(calls)].outcome # "raised") =>
          (calls[Len(calls)].outcome = "accepted" <=> ValidTranslation(translated, content))
    /\ t_pc = "returned" => ValidTranslation(translated, content)

C7_Witness ==
    /\ t_pc = "returned"
    /\ content # <<>>
    /\ \E i \in 1..Len(calls) : calls[i].outcome = "rejected"

\* C8 (as claimed): every attempt that is not accepted adds one entry to the
\* error log.
C8_EveryFailureLogged ==
    Len(last_errors) = Cardinality(NotAcceptedCalls)

\* The sleeps a sequence of attempts asks for, given the wait after a raised
\* attempt and the wait after a rejected result.
RECURSIVE SleepsFor(_, _, _)
SleepsFor(cs, raisedWait, rejectedWait) ==
    IF cs = <<>> THEN <<>>
    ELSE LET c == Head(cs)
             rest == SleepsFor(Tail(cs), raisedWait, rejectedWait)
         IN  IF c.outcome = "accepted" \/ c.attempt >= 2 THEN rest
             ELSE <<[service |-> c.service, attempt |-> c.attempt,
                     secs |-> IF c.outcome = "raised"
                              THEN raisedWait[c.attempt + 1]
                              ELSE rejectedWait[c.attempt + 1]]>> \o rest

TwiceAttemptIndex == [n \in 1..2 |-> n * 2]

OneSecond == [n \in 1..2 |-> 1]

\* C9 (as claimed): after every attempt that is not accepted, with attempts
\* remaining, the sleep is attemptIndex x 2 seconds, whatever the cause.
C9_LinearBackoffAlways ==
    sleeps = SleepsFor(calls, TwiceAttemptIndex, TwiceAttemptIndex)

\* C9 (amended): after an attempt that raised, with attempts remaining, the
\* sleep is attemptIndex x 2 seconds (2, then 4); after an attempt whose
\* result was rejected, with attempts remaining, the sleep is 1 second; there
\* is no sleep after the third attempt nor after an accepted one.
C9_BackoffByCause ==
    sleeps = SleepsFor(calls, TwiceAttemptIndex, OneSecond)

C9_Witness ==
    /\ \E i \in 1..Len(sleeps) : sleeps[i].secs = 4
    /\ \E i \in 1..Len(sleeps) : sleeps[i].secs = 2
    /\ \E i \in 1..Len(sleeps) : sleeps[i].secs = 1
    /\ \E i \in 1..Len(calls) : calls[i].attempt = 2 /\ calls[i].outcome = "raised"

\* C10: with both credentials the list is Gemini, then HuggingFace; the list
\* holds exactly the services whose credential is present; and a service is
\* invoked only after every service before it in the list has had 3 attempts,
\* none accepted.
C10_ServiceOrder ==
    /\ (GEMINI_API_KEY /\ HF_TOKEN) => translation_services = <<"gemini", "huggingface">>
    /\ (GEMINI_API_KEY /\ ~HF_TOKEN) => translation_services = <<"gemini">>
    /\ (~GEMINI_API_KEY /\ HF_TOKEN) => translation_services = <<"huggingface">>
    /\ (~GEMINI_API_KEY /\ ~HF_TOKEN) => translation_services = <<>>
    /\ \A i \in 1..Len(calls) : \A k \in 1..NumServices :
          calls[i].service = translation_services[k] =>
             \A e \in 1..(k - 1) :
                Cardinality({j \in 1..(i - 1) :
                                /\ calls[j].service = translation_services[e]
                                /\ calls[j].outcome # "accepted"}) = 3

C10_Witness ==
    /\ GEMINI_API_KEY
    /\ HF_TOKEN
    /\ Len(calls) = 4
    /\ calls[3].service = "gemini"
    /\ calls[4].service = "huggingface"

(***************************************************************************)
(* Properties of generate_smart_notes                                      *)
(***************************************************************************)
Words == WordCount(sentences)

Returned == s_pc = "done"

AllCallsFailed == \A i \in 1..Len(gen_calls) : gen_calls[i].raised

\* The heading line every document starts with: "# " and the title, or
\* "Smart Notes" when the title is empty.
TitleLine == <<Tok("#")>> \o (IF title = <<>> THEN <<Tok("Smart Notes")>> ELSE title)

\* C1: whatever the text (empty and whitespace-only included), the title and
\* the behaviour of the generation client and of the tokenizers,
\* generate_smart_notes never raises, and what it returns begins with '#'.
C1_NeverRaisesStartsWithHeading ==
    /\ s_pc # "raised"
    /\ Returned => notes # <<>> /\ notes[1].k \in {"#", "##", "###"}

C1_Witness ==
    /\ Returned
    /\ ~nltk_ok
    /\ Words > MAX_CHUNK_SIZE
    /\ notes[1].k = "#"

C1_WitnessBlank ==
    /\ Returned
    /\ blank
    /\ notes[1].k = "#"

\* The FallbackNotes structure: the title line, a "Key Information" heading,
\* one to five bulleted sentences, a "Summary" heading and the summary line.
IsFallbackNotes(doc) ==
    LET ls == Lines(doc)
        n == Len(ls)
    IN  /\ n >= 9
        /\ n <= 13
        /\ ls[1] = TitleLine
        /\ ls[2] = <<>>
        /\ ls[3] = <<Tok("##"), Tok("Key Information")>>
        /\ ls[4] = <<>>
        /\ \A i \in 5..(n - 4) :
              /\ Len(ls[i]) = 2
              /\ ls[i][1].k = "-"
              /\ ls[i][2].k = "sentence"
              /\ ls[i][2].n \in 1..Len(sentences)
        /\ ls[n - 3] = <<>>
        /\ ls[n - 2] = <<Tok("##"), Tok("Summary")>>
        /\ ls[n - 1] = <<>>
        /\ Len(ls[n]) = 1
        /\ ls[n][1].k = "This content covers n main points with key information extracted above."

\* C2 (as claimed, granted that the sentence tokenizer works): when every
\* generation call fails, an input of at least 50 words yields FallbackNotes,
\* in the single-chunk and in the multi-chunk range.
C2_AlwaysFallbackNotes ==
    (Returned /\ nltk_ok /\ Words >= 50 /\ AllCallsFailed) => IsFallbackNotes(notes)

\* The first up to 3 sentences of a chunk, bulleted, one per line.
RECURSIVE ExpectedSummary(_, _)
ExpectedSummary(chunk, j) ==
    IF j > Len(chunk) \/ j > 3 THEN <<>>
    ELSE (IF j > 1 THEN <<NL>> ELSE <<>>) \o <<Tok("-"), S(chunk[j])>>
             \o ExpectedSummary(chunk, j + 1)

\* The per-section combination of the chunks' extractive summaries.
RECURSIVE ExpectedSections(_)
ExpectedSections(i) ==
    IF i > Len(chunks) THEN <<>>
    ELSE <<Tok("##"), [k |-> "Section", n |-> i], NL, NL>> \o ExpectedSummary(chunks[i], 1)
             \o <<NL, NL>> \o ExpectedSections(i + 1)

\* The chunks' extractive summaries separated by blank lines, under the
\* title line, with the footer.
RECURSIVE ExpectedConcatenation(_)
ExpectedConcatenation(i) ==
    IF i > Len(chunks) THEN <<>>
    ELSE (IF i > 1 THEN <<NL, NL>> ELSE <<>>) \o ExpectedSummary(chunks[i], 1)
             \o ExpectedConcatenation(i + 1)

\* C2 (amended): when every generation call fails and the sentence tokenizer
\* works, an input of 50 to maxChunkWords words yields FallbackNotes; an
\* input above maxChunkWords words does not: it yields the chunks' extractive
\* summaries, under "Section i" headings when the combining call was made (and
\* failed), and as their formatted concatenation when the summaries exceed
\* 1.5 x maxChunkWords words and no combining call is made.  Without a working
\* tokenizer the result is the terminal fallback in both ranges.
C2_FallbackBySize ==
    (Returned /\ Words >= 50 /\ AllCallsFailed) =>
        IF ~nltk_ok
        THEN notes = TitleLine \o <<NL, NL, Tok("text[:500]"), Tok("...")>>
        ELSE IF Words <= 1000
        THEN IsFallbackNotes(notes) /\ Len(gen_calls) = 1
        ELSE /\ ~IsFallbackNotes(notes)
             /\ \A i \in 1..Len(notes) : notes[i].k # "Key Information"
             /\ \/ /\ Len(gen_calls) = Len(chunks) + 1
                   /\ notes = TitleLine \o <<NL, NL>> \o ExpectedSections(1)
                \/ /\ Len(gen_calls) = Len(chunks)
                   /\ notes = TitleLine \o <<NL, NL>> \o ExpectedConcatenation(1)
                                \o <<NL, NL, Tok("---"), NL,
                                     Tok("*Generated on <timestamp> by Smart Notes AI*")>>

C2_Witness ==
    /\ Returned
    /\ nltk_ok
    /\ Words >= 50
    /\ Words <= 1000
    /\ Len(gen_calls) = 1
    /\ AllCallsFailed
    /\ IsFallbackNotes(notes)

C2_WitnessMultiChunk ==
    /\ Returned
    /\ nltk_ok
    /\ Words > 1000
    /\ Len(gen_calls) = Len(chunks) + 1
    /\ AllCallsFailed

\* C3: an input of fewer than 50 words is answered at once, with no call of
\* the generation client, by exactly the BasicNotes template: the title line,
\* a "Content" heading, the text unchanged, the brevity note.
C3_BasicNotes ==
    (s_pc # "idle" /\ Words < 50) =>
        /\ Returned
        /\ gen_calls = <<>>
        /\ notes = TitleLine \o <<NL, NL, Tok("##"), Tok("Content"), NL, NL>>
                      \o (IF blank THEN <<SP>>
                          ELSE IF sentences = <<>> THEN <<>> ELSE <<S(1)>>)
                      \o <<NL, NL, Tok("*Note: Content was too brief for advanced processing.*")>>

C3_Witness ==
    /\ Returned
    /\ Words < 50
    /\ Words > 0
    /\ title = <<>>
    /\ gen_calls = <<>>

(***************************************************************************)
(* Properties of the error translate_content_with_retry raises             *)
(***************************************************************************)
\* The invocations that raised, in the order they happened (these are the
\* ones an except clause recorded).
RaisedCalls == SelectSeq(calls, LAMBDA c : c.outcome = "raised")

\* C11: when every service/attempt combination is exhausted without
\* acceptance the call raises, and the message holds the last 3 recorded
\* errors (all of them when fewer than 3 were recorded), in the order they
\* occurred, whatever service they came from.
C11_LastThreeErrors ==
    /\ (t_pc = "loop" /\ service_idx > NumServices) => Len(calls) = 3 * NumServices
    /\ t_pc = "raised" =>
          LET n == Len(last_errors)
              m == Len(error_msg)
          IN  /\ n = Len(RaisedCalls)
              /\ m = Min(3, n)
              /\ \A j \in 1..m :
                    /\ error_msg[j] = last_errors[n - m + j]
                    /\ error_msg[j].service = RaisedCalls[n - m + j].service

\* Both services raised on all their attempts (six recorded errors), and
\* a call where an attempt of the first service was rejected, so that its
\* two recorded errors and one of the second service make the message.
C11_Witness ==
    /\ t_pc = "raised"
    /\ Len(last_errors) = 6
    /\ Len(error_msg) = 3
    /\ error_msg[1].service = "huggingface"

C11_WitnessAcrossServices ==
    /\ t_pc = "raised"
    /\ Len(last_errors) = 3
    /\ error_msg[1].service = "gemini"
    /\ error_msg[3].service = "huggingface"

C11_WitnessFewer ==
    /\ t_pc = "raised"
    /\ Len(last_errors) = 2
    /\ Len(error_msg) = 2

(***************************************************************************)
(* Properties of chunk_text                                                *)
(***************************************************************************)
\* Whitespace normalized: every run of whitespace is one blank, none at the
\* ends.
RECURSIVE Collapse(_)
Collapse(doc) ==
    IF doc = <<>> THEN <<>>
    ELSE IF Head(doc).k \in {" ", "\n"} THEN <<SP>> \o Collapse(SkipSpace(doc))
    ELSE <<Head(doc)>> \o Collapse(Tail(doc))

NormalizeWS(doc) ==
    LET c == Collapse(doc)
        lo == IF c # <<>> /\ c[1] = SP THEN 2 ELSE 1
        hi == IF c # <<>> /\ c[Len(c)] = SP THEN Len(c) - 1 ELSE Len(c)
    IN  SubSeq(c, lo, hi)

\* The sentences of all chunks, chunk after chunk.
RECURSIVE SentencesOfChunks(_)
SentencesOfChunks(cs) ==
    IF cs = <<>> THEN <<>> ELSE sent_tokenize(Head(cs)) \o SentencesOfChunks(Tail(cs))

\* C12: the chunks, concatenated in order with whitespace normalized, are
\* the whitespace-normalized input, and every sentence of the input is in
\* exactly one chunk, in source order.
C12_ChunkRoundTrip ==
    k_pc = "returned" =>
        /\ NormalizeWS(Join(k_chunks, <<SP>>)) = NormalizeWS(k_text.doc)
        /\ SentencesOfChunks(k_chunks) = sent_tokenize(k_text.doc)
        /\ SentencesOfChunks(k_chunks) = [i \in 1..Len(k_text.ss) |-> i]

\* A text of three sentences separated by line breaks, cut into more than
\* one chunk, one of them with two sentences.
C12_Witness ==
    /\ k_pc = "returned"
    /\ Len(k_text.ss) = 3
    /\ k_text.doc # NormalizeWS(k_text.doc)
    /\ Len(k_chunks) = 2
    /\ Len(sent_tokenize(k_chunks[2])) = 2

\* Tokens of a chunk as word_tokenize counts them, words as split() does.
RECURSIVE ChunkTokens(_, _)
ChunkTokens(idx, ss) ==
    IF idx = <<>> THEN 0 ELSE ss[Head(idx)].t + ChunkTokens(Tail(idx), ss)

\* C13: a chunk of two or more sentences never exceeds max_words (in
\* tokens, hence in words); only a chunk of exactly one sentence may.
C13_ChunkSizeBound ==
    k_pc = "returned" =>
        \A j \in 1..Len(k_chunks) :
            LET idx == sent_tokenize(k_chunks[j])
            IN  /\ Len(idx) >= 1
                /\ Len(idx) >= 2 =>
                      /\ ChunkTokens(idx, k_text.ss) <= k_max
                      /\ DocWords(k_chunks[j], k_text.ss) <= k_max
                /\ ChunkTokens(idx, k_text.ss) > k_max => Len(idx) = 1

\* A sentence longer than max_words is a chunk of its own, next to a chunk
\* of two sentences that fills the budget exactly.
C13_Witness ==
    /\ k_pc = "returned"
    /\ Len(k_chunks) = 2
    /\ \E j \in 1..2 :
          /\ Len(sent_tokenize(k_chunks[j])) = 1
          /\ ChunkTokens(sent_tokenize(k_chunks[j]), k_text.ss) > k_max
    /\ \E j \in 1..2 :
          /\ Len(sent_tokenize(k_chunks[j])) = 2
          /\ ChunkTokens(sent_tokenize(k_chunks[j]), k_text.ss) = k_max

(***************************************************************************)
(* Properties of preprocess_text                                           *)
(***************************************************************************)
\* C14 (as claimed): preprocess_text applied to its own result changes
\* nothing.
C14_NormalizerIdempotent ==
    n_pc = "twice" => n_twice = n_once

\* s holds the pieces of pat, one after the other, somewhere.
Contains(s, pat) ==
    \E i \in 1..Len(s) : IsPrefix(pat, SubSeq(s, i, Len(s)))

\* C15 (as claimed): the result of preprocess_text has no URL, no email
\* address, no run of two or more full stops and none of the navigation
\* phrases.
C15_NormalizedTextClean ==
    n_pc \in {"once", "twice"} =>
        /\ ~Contains(n_once, <<"url">>)
        /\ ~Contains(n_once, <<"@">>)
        /\ ~Contains(n_once, <<".", ".">>)
        /\ \A k \in 1..Len(navigation_patterns) :
              ~Contains(n_once, navigation_patterns[k])

(***************************************************************************)
(* Properties of process_long_content                                      *)
(***************************************************************************)
LongInput == s_pc # "idle" /\ Words > MAX_CHUNK_SIZE

\* The chunks whose generation call has been made.
ChunksDone == IF s_pc = "chunk" THEN chunk_i - 1 ELSE Len(chunks)

\* The words of all chunk results together.
RECURSIVE NotesWords(_, _)
NotesWords(cnotes, ss) ==
    IF cnotes = <<>> THEN 0 ELSE DocWords(Head(cnotes), ss) + NotesWords(Tail(cnotes), ss)

\* C16: above MAX_CHUNK_SIZE words the generation calls are one key_insights
\* call per chunk, in chunk order, then at most one topic_breakdown call on
\* the combined results, made only when these have at most 1.5 times
\* MAX_CHUNK_SIZE words; there is no other call.
C16_MultiChunkCalls ==
    LongInput =>
        /\ Len(gen_calls) \in {ChunksDone, ChunksDone + 1}
        /\ \A j \in 1..Len(gen_calls) :
              j <= ChunksDone =>
                  /\ gen_calls[j].kind = "key_insights"
                  /\ gen_calls[j].on = j
        /\ Len(gen_calls) = ChunksDone + 1 =>
              /\ s_pc = "done"
              /\ ChunksDone = Len(chunks)
              /\ gen_calls[Len(gen_calls)].kind = "topic_breakdown"
              /\ gen_calls[Len(gen_calls)].on = Len(chunks) + 1
              /\ 2 * NotesWords(chunk_notes, sentences) <= 3 * MAX_CHUNK_SIZE
        /\ s_pc = "combine" =>
              2 * NotesWords(chunk_notes, sentences) <= 3 * MAX_CHUNK_SIZE

\* Three chunks, three calls in order and the combining call.
C16_Witness ==
    /\ LongInput
    /\ s_pc = "done"
    /\ Len(chunks) = 3
    /\ Len(gen_calls) = 4
    /\ gen_calls[4].kind = "topic_breakdown"

\* The chunk results are too long together: no combining call.
C16_WitnessTooLong ==
    /\ LongInput
    /\ s_pc = "done"
    /\ Len(chunks) >= 2
    /\ Len(gen_calls) = Len(chunks)
    /\ 2 * NotesWords(chunk_notes, sentences) > 3 * MAX_CHUNK_SIZE

\* C17: a generation call that fails on chunk i does not abort the request:
\* the first up to 3 sentences of chunk i, bulleted, become its result, the
\* loop goes on with chunk i + 1, and results are only ever appended, so
\* they stay in chunk order.
C17_ChunkFailureSubstituted ==
    /\ [](LongInput =>
            /\ s_pc # "raised"
            /\ Len(chunk_notes) <= ChunksDone
            /\ (\A j \in 1..ChunksDone : gen_calls[j].raised) =>
                  chunk_notes = [j \in 1..ChunksDone |-> ExpectedSummary(chunks[j], 1)])
    /\ [][(s_pc = "chunk" /\ Len(gen_calls') = Len(gen_calls) + 1) =>
            LET call == gen_calls'[Len(gen_calls')]
            IN  /\ call.on = chunk_i
                /\ call.raised =>
                      chunk_notes' = Append(chunk_notes, ExpectedSummary(chunks[chunk_i], 1))
                /\ ~call.raised =>
                      \/ chunk_notes' = chunk_notes
                      \/ /\ Len(chunk_notes') = Len(chunk_notes) + 1
                         /\ SubSeq(chunk_notes', 1, Len(chunk_notes)) = chunk_notes
                /\ chunk_i < Len(chunks) =>
                      /\ s_pc' = "chunk"
                      /\ chunk_i' = chunk_i + 1
                      /\ chunks' = chunks]_vars

\* The call on the second of three chunks failed, the two others returned
\* a text: three results, the second one the extractive summary.
C17_Witness ==
    /\ LongInput
    /\ Len(chunks) = 3
    /\ Len(gen_calls) >= 3
    /\ ~gen_calls[1].raised
    /\ gen_calls[2].raised
    /\ ~gen_calls[3].raised
    /\ Len(chunk_notes) = 3
    /\ chunk_notes[2] = ExpectedSummary(chunks[2], 1)

\* The chunk whose call failed has more than 3 sentences.
C17_WitnessLongChunk ==
    /\ LongInput
    /\ Len(chunks) = 2
    /\ Len(chunks[2]) > 3
    /\ Len(gen_calls) >= 2
    /\ gen_calls[2].raised
    /\ Len(chunk_notes) >= 1
    /\ chunk_notes[Len(chunk_notes)] = ExpectedSummary(chunks[2], 1)

(***************************************************************************)
(* Properties of the documents generate_smart_notes returns                *)
(***************************************************************************)
\* The last two lines of the document are the rule and the timestamp line.
EndsWithFooter(doc) ==
    /\ Len(doc) >= 5
    /\ SubSeq(doc, Len(doc) - 4, Len(doc)) =
          <<NL, NL, Tok("---"), NL, Tok("*Generated on <timestamp> by Smart Notes AI*")>>

IsTerminalFallback(doc) ==
    doc = TitleLine \o <<NL, NL, Tok("text[:500]"), Tok("...")>>

\* C18 (as claimed): every returned document other than BasicNotes and the
\* terminal fallback went through format_notes_output, so it ends with the
\* timestamp footer; FallbackNotes and the "Section i" combination too.
C18_EveryBranchFormatted ==
    (Returned /\ Words >= MIN_WORDS /\ ~IsTerminalFallback(notes)) =>
        EndsWithFooter(notes)

(***************************************************************************)
(* Properties of format_notes_output                                       *)
(***************************************************************************)
\* The symbols enhance_bullet_points puts in the place of a "-".
BulletSymbols ==
    {"[key symbol]", "[check symbol]", "[warning symbol]", "[sparkle symbol]",
     "[cross symbol]"}

\* A piece of the input and the piece of the output that stands for it.
SamePiece(x, y) == x = y \/ (x.k = "-" /\ y.k \in BulletSymbols)

\* Every piece of a is in b, in the same order (b may hold more).
RECURSIVE Embedded(_, _)
Embedded(a, b) ==
    IF a = <<>> THEN TRUE
    ELSE IF b = <<>> THEN FALSE
    ELSE IF SamePiece(Head(a), Head(b)) THEN Embedded(Tail(a), Tail(b))
    ELSE Embedded(a, Tail(b))

\* C19 (as claimed): everything in a generated text that starts with its
\* first section heading is in the formatted document, in the same order,
\* also when "Structured Notes" or "Text:" comes after that section.
C19_FormatterKeepsContent ==
    (f_pc = "returned" /\ StartsWithHash(f_notes)) => Embedded(f_notes, f_out)

(***************************************************************************)
(* Properties of requests served at the same time                          *)
(***************************************************************************)
\* The error log a translate request has after the responses it received.
RECURSIVE OwnErrorLog(_)
OwnErrorLog(rs) ==
    IF rs = <<>> THEN <<>>
    ELSE (IF Head(rs).raised
          THEN <<[service |-> Head(rs).service, kind |-> "translation error",
                  text |-> Head(rs).exc.text]>>
          ELSE <<>>) \o OwnErrorLog(Tail(rs))

\* The chunk results a synthesize request has after the responses its first
\* n calls received.
RECURSIVE OwnChunkNotes(_, _)
OwnChunkNotes(q, n) ==
    IF n = 0 THEN <<>>
    ELSE OwnChunkNotes(q, n - 1) \o
         (IF q.responses[n].raised THEN <<ExpectedSummary(q.chunks[n], 1)>>
          ELSE IF q.responses[n].out # <<>> THEN <<q.responses[n].out>>
          ELSE <<>>)

\* The state of request q is the one its own arguments and the responses
\* to its own calls lead to.
OwnStateOnly(q) ==
    IF q.kind = "translate"
    THEN /\ q.last_errors = OwnErrorLog(q.responses)
         /\ q.pc = "returned" =>
               /\ q.responses # <<>>
               /\ q.translated = q.responses[Len(q.responses)].out
         /\ q.pc = "raised" =>
               LET log == OwnErrorLog(q.responses)
                   n == Len(log)
               IN  q.error_msg = SubSeq(log, IF n > 3 THEN n - 2 ELSE 1, n)
    ELSE /\ q.pc # "new" => q.chunks = <<<<1>>, <<2>>>>
         /\ q.chunk_notes = OwnChunkNotes(q, Min(Len(q.responses), Len(q.chunks)))
         /\ (q.pc = "returned" /\ Len(q.responses) = Len(q.chunks) + 1) =>
               LET last == q.responses[Len(q.responses)]
               IN  q.notes = IF last.raised
                             THEN format_basic_combination(q.chunk_notes, <<>>)
                             ELSE format_notes_output(last.out, <<>>, q.text)

\* C20: whatever the interleaving of the requests, the service list and
\* the credentials stay as the constructor left them, a step of one request
\* leaves the locals of every other request alone, and the error log, the
\* chunk list and the result of a request follow from its own arguments and
\* from the responses to its own calls.
C20_RequestsIsolated ==
    /\ [](\A r \in DOMAIN requests : OwnStateOnly(requests[r]))
    /\ [][/\ GEMINI_API_KEY' = GEMINI_API_KEY
           /\ HF_TOKEN' = HF_TOKEN
           /\ translation_services' = translation_services
           /\ translation_services = BuildServices(GEMINI_API_KEY, HF_TOKEN)
           /\ \E r \in DOMAIN requests :
                 \A o \in DOMAIN requests \ {r} : requests'[o] = requests[o]]_vars

\* Two translate requests under way at once, each with errors of its own
\* in its log, next to each other.
C20_Witness ==
    /\ DOMAIN requests = Requests
    /\ requests[1].kind = "translate"
    /\ requests[1].pc = "loop"
    /\ Len(requests[1].last_errors) = 2
    /\ requests[2].kind = "translate"
    /\ requests[2].pc = "loop"
    /\ Len(requests[2].last_errors) = 4

\* A translate request and a synthesize request under way at once.
C20_WitnessMixed ==
    /\ DOMAIN requests = Requests
    /\ requests[1].kind = "synthesize"
    /\ requests[1].pc = "chunk"
    /\ requests[1].chunk_i = 2
    /\ requests[2].kind = "translate"
    /\ requests[2].pc = "loop"
    /\ Len(requests[2].last_errors) = 1

(***************************************************************************)
(* Properties of the translation services                                  *)
(***************************************************************************)
\* A piece within the budget, or one sentence that is longer than the budget.
PieceInBudget(piece, ss) ==
    DocChars(piece, ss) <= max_chars \/ Len(sent_tokenize(piece)) = 1

\* C21 (as the code has it): translate_content cuts the text into pieces of
\* whole sentences, in source order, each of at most 1000 characters unless
\* it is one longer sentence; every request it makes carries exactly the
\* piece of its loop position; the result is the translated pieces joined by
\* single blanks in the order of the pieces.  translate_with_gemini makes
\* one request that carries the whole text.
C21_HuggingFaceSplitsGeminiDoesNot ==
    /\ (h_service = "huggingface" /\ h_pieces # <<>>) =>
        /\ \A j \in 1..Len(h_pieces) : PieceInBudget(h_pieces[j], h_text.ss)
        /\ SentencesOfChunks(h_pieces) = sent_tokenize(h_text.doc)
        /\ \A r \in 1..Len(h_requests) :
            h_requests[r].inputs = h_pieces[h_requests[r].piece]
        /\ Len(h_translated) <= Len(h_pieces)
        /\ \A j \in 1..Len(h_translated) :
            h_translated[j] \in {Tr(h_pieces[j]), h_pieces[j]}
        /\ h_pc = "returned" =>
            /\ Len(h_translated) = Len(h_pieces)
            /\ h_out = Join(h_translated, <<SP>>)
    /\ (h_service = "gemini" /\ h_pc \in {"returned", "raised"}) =>
        /\ Len(h_requests) = 1
        /\ h_requests[1].inputs = h_text.doc

\* translate_content returned the translation of a text of more than 1000
\* characters cut into two pieces, the first of two sentences.
C21_Witness ==
    /\ h_service = "huggingface"
    /\ h_pc = "returned"
    /\ DocChars(h_text.doc, h_text.ss) > max_chars
    /\ Len(h_pieces) = 2
    /\ Len(sent_tokenize(h_pieces[1])) = 2
    /\ h_out = Join(<<Tr(h_pieces[1]), Tr(h_pieces[2])>>, <<SP>>)

\* C21 as stated: whatever the service, no request carries more than one
\* piece of at most 1000 characters (one longer sentence excepted).
C21_EveryServiceSplits ==
    \A r \in 1..Len(h_requests) : PieceInBudget(h_requests[r].inputs, h_text.ss)

(***************************************************************************)
(* Properties of create_structured_notes                                   *)
(***************************************************************************)
LadderKinds == <<"structured_notes", "key_insights", "topic_breakdown">>

\* The calls made so far are calls of the single-chunk path.
SingleChunkCalls == gen_calls # <<>> /\ gen_calls[1].on = 0

\* The calls of the single-chunk path are the prompt kinds of the ladder in
\* their order, at most three, and only the last one can have raised; after
\* a call that raised the fallback notes are returned.
LadderOrder ==
    SingleChunkCalls =>
        /\ Len(gen_calls) <= 3
        /\ \A i \in 1..Len(gen_calls) :
            /\ gen_calls[i].kind = LadderKinds[i]
            /\ gen_calls[i].on = 0
            /\ i < Len(gen_calls) => ~gen_calls[i].raised
        /\ gen_calls[Len(gen_calls)].raised =>
            /\ s_pc = "done"
            /\ notes = create_fallback_notes(sentences, blank, title, nltk_ok)
        /\ s_pc = "key_insights" => Len(gen_calls) = 1
        /\ s_pc = "topic_breakdown" => Len(gen_calls) = 2

\* The result of the pending call of the ladder is out: what the step does.
LadderStep(out) ==
    /\ gen_calls' = Append(gen_calls, [kind |-> s_pc, on |-> 0, raised |-> out.raised])
    /\ IF out.raised
       THEN /\ s_pc' = "done"
            /\ notes' = create_fallback_notes(sentences, blank, title, nltk_ok)
       ELSE LET accepted ==
                    CASE s_pc = "structured_notes" ->
                            out.text # <<>> /\ DocChars(out.text, sentences) > 100
                      [] s_pc = "key_insights" -> out.text # <<>>
                      [] OTHER -> TRUE
                used == IF out.text # <<>> THEN out.text ELSE <<Tok("text[:500]")>>
            IN  IF accepted
                THEN /\ s_pc' = "done"
                     /\ notes' = format_notes_output(used, title, sentences)
                ELSE /\ s_pc' = IF s_pc = "structured_notes" THEN "key_insights"
                                ELSE "topic_breakdown"
                     /\ notes' = notes

\* A step made while a call of the ladder is pending is a step of the ladder.
LadderStepTaken ==
    s_pc \in {"structured_notes", "key_insights", "topic_breakdown"} =>
        \E out \in GenUniverse : LadderStep(out)

\* C22: the ladder of the single-chunk path.  StructuredNotes is accepted
\* iff it is not empty and longer than 100 characters, else KeyInsights is
\* accepted iff it is not empty, else TopicBreakdown is returned, or the
\* first 500 characters of the input when it is empty; at most three calls,
\* no two with the same prompt kind; a call that raises ends in the fallback
\* notes with no further call.
C22_SingleChunkLadder ==
    /\ []LadderOrder
    /\ [][LadderStepTaken]_vars

\* All three calls were made and returned nothing: the notes are made of the
\* first 500 characters of the input.
C22_Witness ==
    /\ s_pc = "done"
    /\ SingleChunkCalls
    /\ Len(gen_calls) = 3
    /\ ~gen_calls[3].raised
    /\ notes = format_notes_output(<<Tok("text[:500]")>>, title, sentences)

\* The first call returned a text of at most 100 characters and the second
\* call raised: the fallback notes, after two calls.
C22_WitnessRaised ==
    /\ s_pc = "done"
    /\ SingleChunkCalls
    /\ Len(gen_calls) = 2
    /\ gen_calls[2].raised
    /\ notes = create_fallback_notes(sentences, blank, title, nltk_ok)

(***************************************************************************)
(* Properties of create_fallback_notes                                     *)
(***************************************************************************)
\* The positions of the sentences a document holds, in the order they are in.
SentencePositions(doc) == sent_tokenize(doc)

\* The positions 4..p-1 whose sentence holds an indicator word.
KeyedBefore(ss, p) == {q \in 4..(p - 1) : ss[q].key}

\* C23: with a working tokenizer the fallback notes hold at most 5 bullets,
\* in source order: the first 3 sentences (all of them when the text has
\* fewer), then the sentences at positions 4..8 that hold an indicator word,
\* as long as fewer than 5 are taken; no sentence at position 9 or later;
\* the summary line gives the number of sentences of the text.
C23_FallbackBullets ==
    (b_pc = "returned" /\ nltk_ok) =>
        LET bullets == SentencePositions(b_out)
            n == Len(b_text)
            taken == {bullets[i] : i \in 1..Len(bullets)}
        IN  /\ Len(bullets) <= 5
            /\ \A i \in 1..(Len(bullets) - 1) : bullets[i] < bullets[i + 1]
            /\ \A p \in 1..Min(3, n) : p \in taken
            /\ \A p \in taken : p > 3 => (p <= 8 /\ b_text[p].key)
            /\ \A p \in 4..Min(8, n) :
                b_text[p].key => (p \in taken <=> 3 + Cardinality(KeyedBefore(b_text, p)) < 5)
            /\ b_out[Len(b_out)] = SummaryLine(n)
            /\ \A i \in 1..Len(b_out) :
                b_out[i].k = "sentence" => (i > 1 /\ b_out[i - 1].k = "-")

\* A text of 9 sentences with indicator words at positions 5, 7, 8 and 9:
\* the bullets are the sentences 1, 2, 3, 5 and 7.
C23_Witness ==
    /\ b_pc = "returned"
    /\ nltk_ok
    /\ Len(b_text) = 9
    /\ {p \in 1..9 : b_text[p].key} = {5, 7, 8, 9}
    /\ SentencePositions(b_out) = <<1, 2, 3, 5, 7>>
    /\ b_out[Len(b_out)] = SummaryLine(9)

(***************************************************************************)
(* Properties of chunk_text at the edges                                   *)
(***************************************************************************)
\* The tokens of the whole text, as word_tokenize counts them sentence by
\* sentence.
TotalTokens(ss) == ChunkTokens([i \in 1..Len(ss) |-> i], ss)

\* C24 (as the code has it): chunk_text returns no chunk for a text without
\* a sentence; exactly one chunk, the text's sentences joined by single
\* blanks (the trimmed text when its sentences are one blank apart), when
\* the tokens of the text are at most max_words; at least two chunks when
\* the text has two sentences or more and more tokens than max_words.
C24_ChunkerEdges ==
    k_pc = "returned" =>
        /\ k_text.ss = <<>> => k_chunks = <<>>
        /\ (k_text.ss # <<>> /\ TotalTokens(k_text.ss) <= k_max) =>
            /\ k_chunks = <<NormalizeWS(k_text.doc)>>
            /\ NormalizeWS(k_text.doc) = k_text.doc => k_chunks = <<StripDoc(k_text.doc)>>
        /\ (Len(k_text.ss) >= 2 /\ TotalTokens(k_text.ss) > k_max) => Len(k_chunks) >= 2

\* Two sentences a line break apart, within max_words: one chunk, which is
\* not the trimmed text.
C24_Witness ==
    /\ k_pc = "returned"
    /\ Len(k_text.ss) = 2
    /\ TotalTokens(k_text.ss) <= k_max
    /\ Len(k_chunks) = 1
    /\ k_chunks[1] # StripDoc(k_text.doc)

\* Two sentences of 50 words and 52 tokens together, max_words = 50: two
\* chunks.
C24_WitnessTokens ==
    /\ k_pc = "returned"
    /\ Len(k_text.ss) = 2
    /\ WordCount(k_text.ss) <= k_max
    /\ TotalTokens(k_text.ss) > k_max
    /\ Len(k_chunks) = 2

\* C24 as stated: with the words of the text counted as text.split() counts
\* them, and the single chunk equal to the trimmed text.
C24_OneChunkIsTrimmedText ==
    k_pc = "returned" =>
        /\ k_text.ss = <<>> => k_chunks = <<>>
        /\ (k_text.ss # <<>> /\ WordCount(k_text.ss) <= k_max) =>
            k_chunks = <<StripDoc(k_text.doc)>>
        /\ (Len(k_text.ss) >= 2 /\ WordCount(k_text.ss) > k_max) => Len(k_chunks) >= 2

(***************************************************************************)
(* Properties of translate_chunk                                           *)
(***************************************************************************)
\* The requests of the history made to the specialized model.
SpecializedRequests == SelectSeq(h_requests, LAMBDA r : r.model = model_name(h_lang))

\* The history holds the requests of one piece only.
OnePieceInHistory ==
    \A r \in 1..Len(h_requests) : h_requests[r].piece = h_requests[1].piece

\* C25: for one piece translate_chunk makes at most two requests to the
\* specialized model; the second one only after the first was answered with
\* status 503, and after a sleep of 20 seconds; a second 503 is not retried,
\* the general model is asked instead.
C25_OneRetryAfter503 ==
    h_service = "huggingface" =>
        /\ OnePieceInHistory
        /\ Len(SpecializedRequests) <= 2
        /\ \A r \in 1..Len(h_requests) :
            h_requests[r].model = model_name(h_lang) => r <= 2
        /\ (Len(h_requests) >= 2 /\ h_requests[2].model = model_name(h_lang)) =>
            /\ h_requests[1].response = "503"
            /\ h_sleeps = <<20>>
        /\ (h_requests # <<>> /\ h_requests[1].response = "503") =>
            \/ h_pc = "retry" /\ Len(h_requests) = 1 /\ h_sleeps = <<20>>
            \/ Len(h_requests) >= 2 /\ h_requests[2].model = model_name(h_lang)
        /\ (h_requests # <<>> /\ h_requests[1].response # "503") => h_sleeps = <<>>
        /\ (Len(h_requests) = 2 /\ h_requests[2].response = "503") => h_pc = "general"
        /\ Len(h_requests) >= 3 => h_requests[3].model = GeneralModel
        /\ Len(h_requests) <= 3

\* Status 503 twice: two requests to the specialized model, then the
\* general model.
C25_Witness ==
    /\ h_service = "huggingface"
    /\ Len(h_requests) = 3
    /\ h_requests[1].response = "503"
    /\ h_requests[2].response = "503"
    /\ h_requests[2].model = model_name(h_lang)
    /\ h_requests[3].model = GeneralModel
    /\ h_sleeps = <<20>>

(***************************************************************************)
(* Properties of add_mind_map                                              *)
(***************************************************************************)
MindMapBlock ==
    <<NL, NL, Tok("###"), Tok("Mind Map Overview"), NL, Tok("[mind map block]"), NL, NL>>

\* Line l is a heading whose words make a topic.
HeadingTopicLine(l) ==
    /\ l # <<>>
    /\ Head(l).k \in HeadingMarkers
    /\ DocChars(Tail(l), <<>>) > 3

\* Line l is a short bullet whose words make a topic.
BulletTopicLine(l) ==
    /\ Len(l) >= 2
    /\ Head(l).k = "-"
    /\ l[2].k \in Capitalized
    /\ DocChars(Tail(l), <<>>) > 5
    /\ DocWords(Tail(l), <<>>) <= 4

\* The lines of doc where topic tp is a heading, and where it is a bullet.
HeadingLinesOf(doc, tp) ==
    {i \in 1..Len(Lines(doc)) : HeadingTopicLine(Lines(doc)[i]) /\ Tail(Lines(doc)[i]) = tp}

BulletLinesOf(doc, tp) ==
    {i \in 1..Len(Lines(doc)) : BulletTopicLine(Lines(doc)[i]) /\ Tail(Lines(doc)[i]) = tp}

SetMin(set) == CHOOSE x \in set : \A y \in set : x <= y

\* All topics of doc.
Candidates(doc) ==
    {Tail(Lines(doc)[i]) : i \in {j \in 1..Len(Lines(doc)) :
        HeadingTopicLine(Lines(doc)[j]) \/ BulletTopicLine(Lines(doc)[j])}}

\* The place of a topic in the list: the headings in the order of the
\* document, then the bullets in the order of the document.
HeadingsFirstRank(doc, tp) ==
    IF HeadingLinesOf(doc, tp) # {} THEN SetMin(HeadingLinesOf(doc, tp))
    ELSE Len(Lines(doc)) + SetMin(BulletLinesOf(doc, tp))

\* The place of a topic in the document: the first line it is on.
DocumentRank(doc, tp) == SetMin(HeadingLinesOf(doc, tp) \cup BulletLinesOf(doc, tp))

\* topics is duplicate-free, has at most 6 entries, all of them topics of
\* doc, and is the beginning of the topics of doc ordered by rank.
TopicListBy(doc, topics, rank) ==
    /\ Len(topics) <= 6
    /\ \A i, j \in 1..Len(topics) : i # j => topics[i] # topics[j]
    /\ \A i \in 1..Len(topics) : topics[i] \in Candidates(doc)
    /\ \A i \in 1..(Len(topics) - 1) : rank[topics[i]] < rank[topics[i + 1]]
    /\ \A tp \in Candidates(doc) :
        \/ \E i \in 1..Len(topics) : topics[i] = tp
        \/ Len(topics) = 6 /\ rank[tp] > rank[topics[6]]

\* C26 (as the code has it): add_mind_map appends the 'Mind Map Overview'
\* block iff extract_mind_map_topics yields 3 topics or more and returns the
\* text unchanged otherwise; the topic list is duplicate-free, has at most 6
\* entries, and holds the headings of the document in document order
\* followed by the short bullet lines in document order.
C26_MindMapFromTopics ==
    m_pc = "returned" =>
        /\ m_out = IF Len(m_topics) >= 3 THEN m_text \o MindMapBlock ELSE m_text
        /\ TopicListBy(m_text, m_topics,
                       [tp \in Candidates(m_text) |-> HeadingsFirstRank(m_text, tp)])

\* Seven topics, a bullet on the first line: six are kept, the three
\* headings first, and the block is appended.
C26_Witness ==
    /\ m_pc = "returned"
    /\ Cardinality(Candidates(m_text)) = 7
    /\ BulletTopicLine(Lines(m_text)[1])
    /\ Len(m_topics) = 6
    /\ m_topics[1] = <<Tok("Alpha")>>
    /\ m_topics[4] = Tail(Lines(m_text)[1])
    /\ m_out = m_text \o MindMapBlock

\* Two topics only (a heading and a bullet with the same words count once):
\* the text is returned unchanged.
C26_WitnessUnchanged ==
    /\ m_pc = "returned"
    /\ Len(Lines(m_text)) = 3
    /\ Len(m_topics) = 2
    /\ m_out = m_text

\* C26 as stated: the topics are in the order of the document.
C26_TopicsInDocumentOrder ==
    m_pc = "returned" =>
        /\ m_out = IF Len(m_topics) >= 3 THEN m_text \o MindMapBlock ELSE m_text
        /\ TopicListBy(m_text, m_topics,
                       [tp \in Candidates(m_text) |-> DocumentRank(m_text, tp)])

\* C27: every request to a specialized model goes to the model mapped to
\* the target language, never to the model of another language; the general
\* model is asked only after the specialized model answered with an error
\* or with a body of an unexpected shape.
C27_ModelOfTargetLanguage ==
    h_service = "huggingface" =>
        \A r \in 1..Len(h_requests) :
            /\ h_requests[r].model # GeneralModel =>
                \A l \in DOMAIN language_models :
                    h_requests[r].model = language_models[l] => l = Lower(h_lang)
            /\ h_requests[r].model = GeneralModel =>
                /\ r > 1
                /\ h_requests[r - 1].model # GeneralModel
                /\ h_requests[r - 1].response \in
                       {"error", "other shape", "503", "http error", "timeout"}

(***************************************************************************)
(* Properties of the list chunk_notes                                      *)
(***************************************************************************)
\* C28: on the multi-chunk path every chunk that was processed has exactly
\* one entry in chunk_notes, so that after the loop chunk_notes has as many
\* entries as there are chunks, also when a generation call returned an
\* empty text.
C28_OneEntryPerChunk ==
    (chunks # <<>> /\ s_pc \in {"chunk", "combine", "done"}) =>
        /\ Len(chunk_notes) = Cardinality({c \in 1..Len(gen_calls) :
                                      gen_calls[c].on \in 1..Len(chunks)})
        /\ s_pc \in {"combine", "done"} => Len(chunk_notes) = Len(chunks)

(***************************************************************************)
(* Properties of the text translate_content returns                        *)
(***************************************************************************)
\* C29: in a result of the HuggingFace service that the validation accepts,
\* every piece is what a model answered for it; no piece is the original
\* text of the piece, put in its place after both models failed.
C29_EveryPieceTranslated ==
    (h_service = "huggingface" /\ h_pc = "returned" /\ Validated(h_out, h_text.doc)) =>
        \A j \in 1..Len(h_pieces) : h_translated[j] = Tr(h_pieces[j])

(***************************************************************************)
(* Properties of the text translate_with_gemini returns                    *)
(***************************************************************************)
\* The text of a candidate without the whitespace around it and without a
\* leading 'Translation:'.
WholeCandidate(text) ==
    IF StripDoc(text) # <<>> /\ Head(StripDoc(text)).k = "Translation:"
    THEN StripDoc(Tail(StripDoc(text)))
    ELSE StripDoc(text)

\* C30: translate_with_gemini returns the whole text of the first candidate,
\* only the whitespace around it and a leading 'Translation:' removed; every
\* line of a candidate of several lines is in the result, in order.  (Stated
\* for the candidates that are a translation and nothing else, without a
\* line of introduction.)
C30_WholeCandidateReturned ==
    (/\ h_service = "gemini"
     /\ h_pc = "returned"
     /\ ~HasAny(h_requests[1].text, {"Here is the translation"})) =>
        /\ h_out = WholeCandidate(h_requests[1].text)
        /\ Len(Lines(h_out)) = Len(Lines(WholeCandidate(h_requests[1].text)))

====
